---------------------------- MODULE Spec2Model ----------------------------
(***************************************************************************)
(* Verification model of the py-lux arbitrage engine: the reference-price  *)
(* fallback chains (lib/watch_api.py, lib/research_agent.py), the          *)
(* retrying source adapters (lib/ebay_api.py,                              *)
(* lib/facebook_marketplace_api.py, lib/amazon_api.py,                     *)
(* lib/watch_database_api.py), the RapidAPI usage tracker                  *)
(* (lib/rapidapi_usage_tracker.py), the multi-source fan-out (app.py,      *)
(* scanners/luxury_scanner.py) and the cross-platform matcher              *)
(* (lib/arbitrage_comparison.py).                                          *)
(*                                                                         *)
(* Each subsystem has its own specification (SpecChain, SpecCall, ...);    *)
(* the variables of the other subsystems stay at their initial value.      *)
(***************************************************************************)
EXTENDS Integers, Sequences, FiniteSets, TLC

VARIABLES chain, call, quota, fan, match, arb, norm, fetch, web

vars == <<chain, call, quota, fan, match, arb, norm, fetch, web>>

(***************************************************************************)
(* Values shared by the subsystems.                                        *)
(***************************************************************************)

\* A Python Optional[float] return, or an exception leaving the function.
NoneR == [kind |-> "none", v |-> 0]
RaiseR == [kind |-> "raise", v |-> 0]
ValR(x) == [kind |-> "value", v |-> x]

\* Python truthiness of an Optional[float]: None and 0.0 are falsy.
Truthy(r) == r.kind = "value" /\ r.v # 0

Idle == [status |-> "idle"]

(***************************************************************************)
(* PRICE RESOLUTION CHAIN                                                  *)
(***************************************************************************)

\* Dollar amounts an upstream page or API can carry (whole dollars).
Prices == {0, 150, 275}
NegPrice == 0 - 5

\* What the upstream of a provider does on one lookup: the request times
\* out, fails with a connection/HTTP error, answers without a price, or
\* answers with a price.
Timeout == [ev |-> "timeout", amount |-> 0]
NetError == [ev |-> "error", amount |-> 0]
NoData == [ev |-> "nodata", amount |-> 0]
Priced(x) == [ev |-> "price", amount |-> x]

Failures == {Timeout, NetError}
UpstreamEvents ==
    Failures \cup {NoData} \cup {Priced(x) : x \in Prices \cup {NegPrice}}

\* Provider order of each chain, as written in the function bodies.
WatchProviders == <<"ebay_sold", "wc_scrape", "wc_api", "ai">>
CardProviders == <<"psa_page", "deep_research">>
ScrapeProviders == <<"ebay_page", "psa_page">>

ProvidersOf(kind) ==
    CASE kind = "watch" -> WatchProviders
      [] kind = "card" -> CardProviders
      [] kind = "scrape" -> ScrapeProviders

ChainKinds == {"watch", "card", "scrape"}

\* Events each provider's parsing can turn into a return value.  Sold
\* listings average strictly positive prices; the page scrapers match
\* unsigned digit runs ([\d,]+\.?\d*), so never a negative number; the
\* price-index API and the LLM answer are passed through float().
EventsOf(p) ==
    CASE p \in {"ebay_sold"} ->
           {u \in UpstreamEvents : u.ev = "price" => u.amount > 0}
      [] p \in {"wc_scrape", "ebay_page", "psa_page", "deep_research"} ->
           {u \in UpstreamEvents : u.ev = "price" => u.amount >= 0}
      [] OTHER -> UpstreamEvents

IsFailure(u) == u \in Failures

\* get_market_price_from_sold_listings: search_sold_listings re-raises
\* request failures; otherwise the average price or None.
get_market_price_from_sold_listings(u) ==
    IF IsFailure(u) THEN RaiseR
    ELSE IF u.ev = "nodata" THEN NoneR ELSE ValR(u.amount)

\* scrape_watchcharts_price / _scrape_price_from_watch_page: every request
\* sits in a try/except that yields None; a price is returned only if > 0.
scrape_watchcharts_price(u) ==
    IF IsFailure(u) \/ u.ev = "nodata" THEN NoneR
    ELSE IF u.amount > 0 THEN ValR(u.amount) ELSE NoneR

\* get_watchcharts_price: except Exception -> None; market_price is
\* returned through float() whenever it is not None.
get_watchcharts_price(u) ==
    IF IsFailure(u) \/ u.ev = "nodata" THEN NoneR ELSE ValR(u.amount)

\* get_watch_price_ai: except Exception -> None; "if market_price:" drops
\* a zero, float() keeps any other number.
get_watch_price_ai(u) ==
    IF IsFailure(u) \/ u.ev = "nodata" THEN NoneR
    ELSE IF u.amount # 0 THEN ValR(u.amount) ELSE NoneR

\* scrape_psa_estimate_from_ebay: except Exception -> None; every parsed
\* value is returned only if > 0.
scrape_psa_estimate_from_ebay(u) ==
    IF IsFailure(u) \/ u.ev = "nodata" THEN NoneR
    ELSE IF u.amount > 0 THEN ValR(u.amount) ELSE NoneR

\* The PSA-page part of scrape_psa_estimate: except Exception -> None; a
\* matched "PSA Estimate" figure is returned through float() unchecked.
scrape_psa_page(u) ==
    IF IsFailure(u) \/ u.ev = "nodata" THEN NoneR ELSE ValR(u.amount)

\* deep_research_pricing followed by research.get("psa_estimate"):
\* except Exception -> None; the figure parsed from the LLM text.
deep_research_estimate(u) ==
    IF IsFailure(u) \/ u.ev = "nodata" THEN NoneR ELSE ValR(u.amount)

ProviderReturn(p, u) ==
    CASE p = "ebay_sold" -> get_market_price_from_sold_listings(u)
      [] p = "wc_scrape" -> scrape_watchcharts_price(u)
      [] p = "wc_api" -> get_watchcharts_price(u)
      [] p = "ai" -> get_watch_price_ai(u)
      [] p = "ebay_page" -> scrape_psa_estimate_from_ebay(u)
      [] p = "psa_page" -> scrape_psa_page(u)
      [] p = "deep_research" -> deep_research_estimate(u)

\* Configuration a chain is called with.
ChainConfigs ==
    [use_watchcharts : BOOLEAN, watchcharts_key : BOOLEAN,
     openrouter_key : BOOLEAN, ebay_url : BOOLEAN]

\* The guard in front of each provider call.
ProviderEnabled(kind, p, cfg) ==
    CASE p = "wc_api" -> cfg.use_watchcharts /\ cfg.watchcharts_key
      [] p = "ai" -> cfg.openrouter_key
      [] p = "deep_research" -> cfg.openrouter_key
      [] p = "ebay_page" -> cfg.ebay_url
      [] OTHER -> TRUE

\* A chain none of whose provider calls is wrapped in try/except.
ChainCatchesNothing(kind) == FALSE

\* Whether the chain wraps the provider call in try/except Exception:
\* get_watch_reference_price does, get_card_pricing and
\* scrape_psa_estimate rely on the providers' own handlers.
ChainCatches(kind) == kind = "watch"

ChainIdle ==
    [status |-> "idle", kind |-> "watch",
     cfg |-> [use_watchcharts |-> FALSE, watchcharts_key |-> FALSE,
              openrouter_key |-> FALSE, ebay_url |-> FALSE],
     pos |-> 1, calls |-> <<>>, events |-> <<>>, results |-> <<>>,
     result |-> NoneR]

\* A caller invokes a chain for one identity.
StartChain ==
    /\ chain.status = "idle"
    /\ \E kind \in ChainKinds, cfg \in ChainConfigs :
         chain' = [ChainIdle EXCEPT !.status = "trying", !.kind = kind,
                                    !.cfg = cfg]
    /\ UNCHANGED <<call, quota, fan, match, arb, norm, fetch, web>>

\* A chain whose "if price: return price" is missing: it keeps going and
\* the last provider's answer wins.
AfterCallNoReturn(c, r) ==
    IF r.kind = "raise" /\ ~ChainCatches(c.kind)
    THEN [c EXCEPT !.status = "raised"]
    ELSE IF Truthy(r)
    THEN [c EXCEPT !.pos = @ + 1, !.result = r]
    ELSE [c EXCEPT !.pos = @ + 1]

\* The PSA-page method of scrape_psa_estimate is the function's own tail:
\* its "return float(value_str)" and "return None" are the chain's return,
\* with no truth test in between.
ReturnsDirectly(kind, p) == kind = "scrape" /\ p = "psa_page"

\* What the chain does with a provider's return r: an exception leaves
\* the function unless the call is wrapped; "if price: return price";
\* otherwise fall through to the next method.
AfterCall(c, r) ==
    IF r.kind = "raise" /\ ~ChainCatches(c.kind)
    THEN [c EXCEPT !.status = "raised"]
    ELSE IF Truthy(r) \/ ReturnsDirectly(c.kind, c.calls[Len(c.calls)])
    THEN [c EXCEPT !.status = "returned", !.result = r]
    ELSE [c EXCEPT !.pos = @ + 1]

\* One provider step of the function body: skip a provider whose guard is
\* false, or call it and act on what it returns.
TryProvider ==
    /\ chain.status = "trying"
    /\ chain.pos <= Len(ProvidersOf(chain.kind))
    /\ LET p == ProvidersOf(chain.kind)[chain.pos] IN
       IF ~ProviderEnabled(chain.kind, p, chain.cfg)
       THEN chain' = [chain EXCEPT !.pos = @ + 1]
       ELSE \E u \in EventsOf(p) :
              LET r == ProviderReturn(p, u)
                  called == [chain EXCEPT !.calls = Append(@, p),
                                          !.events = Append(@, u),
                                          !.results = Append(@, r)]
              IN chain' = AfterCall(called, r)
    /\ UNCHANGED <<call, quota, fan, match, arb, norm, fetch, web>>

\* The trailing "return None".
ChainExhausted ==
    /\ chain.status = "trying"
    /\ chain.pos > Len(ProvidersOf(chain.kind))
    /\ chain' = [chain EXCEPT !.status = "returned", !.result = NoneR]
    /\ UNCHANGED <<call, quota, fan, match, arb, norm, fetch, web>>

\* The caller takes the result; the next lookup may start.
ChainDone ==
    /\ chain.status \in {"returned", "raised"}
    /\ chain' = ChainIdle
    /\ UNCHANGED <<call, quota, fan, match, arb, norm, fetch, web>>

InitChain ==
    /\ chain = ChainIdle
    /\ call = Idle
    /\ quota = Idle
    /\ fan = Idle
    /\ match = Idle
    /\ arb = Idle
    /\ norm = Idle
    /\ fetch = Idle
    /\ web = Idle

NextChain == StartChain \/ TryProvider \/ ChainExhausted \/ ChainDone

SpecChain == InitChain /\ [][NextChain]_vars

\* The providers of the running chain whose guard is true, in code order.
EnabledProviders ==
    SelectSeq(ProvidersOf(chain.kind),
              LAMBDA p : ProviderEnabled(chain.kind, p, chain.cfg))

\* The providers are called in code order without a gap or a repeat.
CalledInOrder == chain.calls = SubSeq(EnabledProviders, 1, Len(chain.calls))

NonNil(r) == r.kind = "value"
NonZero(r) == r.kind = "value" /\ r.v # 0

\* C1 as stated: providers are tried in order, the chain returns the
\* first non-nil provider result, and no provider is called after one
\* that returned a non-nil result.
C1_FirstNonNil ==
    /\ CalledInOrder
    /\ \A i \in 1..Len(chain.results) :
         NonNil(chain.results[i]) => i = Len(chain.results)
    /\ chain.status = "returned" =>
         IF \E i \in 1..Len(chain.results) : NonNil(chain.results[i])
         THEN chain.result = chain.results[Len(chain.results)]
         ELSE chain.result = NoneR

\* C1 amended: providers are tried in order, no provider is called after
\* one that returned a result that is neither nil nor zero, and the two
\* reference-price chains (get_watch_reference_price, get_card_pricing)
\* return the first such result, or nil after calling every enabled
\* provider when there is none.
C1_FirstNonZero ==
    /\ CalledInOrder
    /\ \A i \in 1..Len(chain.results) :
         NonZero(chain.results[i]) => i = Len(chain.results)
    /\ (chain.status = "returned" /\ chain.kind \in {"watch", "card"}) =>
         IF \E i \in 1..Len(chain.results) : NonZero(chain.results[i])
         THEN chain.result = chain.results[Len(chain.results)]
         ELSE /\ chain.result = NoneR
              /\ chain.calls = EnabledProviders

\* A chain returned the second provider's price after the first provider
\* answered zero.
C1_Witness ==
    /\ chain.status = "returned"
    /\ Len(chain.results) = 2
    /\ chain.results[1] = ValR(0)
    /\ chain.result = ValR(150)

C15_PositiveOrNil ==
    /\ chain.status # "raised"
    /\ chain.status = "returned" =>
         \/ chain.result.kind = "value" /\ chain.result.v > 0
         \/ chain.result = NoneR /\ chain.calls = EnabledProviders

(***************************************************************************)
(* QUOTA GUARD: lib/rapidapi_usage_tracker.py.  The state is the JSON file *)
(* data/rapidapi_usage.json, shared by every caller of record_request.     *)
(***************************************************************************)

MonthlyLimit == 30
WarnRemaining == 5
WindowDays == 31
LogCap == 50

\* Days on the model's clock and the size of one clock step.
MaxDay == 64
DayStep == 16

\* Counts a usage file left by earlier runs may hold.
InitialCounts == {0, 24, 29}

\* get_usage_stats: the default record when the file does not exist,
\* else the file's content.
get_usage_stats(file, now) ==
    IF ~file.exists
    THEN [exists |-> TRUE, total_requests |-> 0, requests_this_month |-> 0,
          month_start |-> now, nrequests |-> 0]
    ELSE file

\* A reset that already happens on the 31st day.
WindowExpiredAtLimit(stats, now) == now - stats.month_start >= WindowDays

\* The monthly reset of record_request: (now - month_start).days > 31.
WindowExpired(stats, now) == now - stats.month_start > WindowDays

\* The record that record_request writes back, from the stats it read.
RecordedStats(stats, now) ==
    LET s == IF WindowExpired(stats, now)
             THEN [stats EXCEPT !.requests_this_month = 0,
                                !.month_start = now]
             ELSE stats
    IN [s EXCEPT !.total_requests = @ + 1,
                 !.requests_this_month = @ + 1,
                 !.nrequests = IF @ + 1 > LogCap THEN LogCap ELSE @ + 1]

\* "Warn if approaching limit": remaining = 30 - requests_this_month.
WarnsAfter(stats) == MonthlyLimit - stats.requests_this_month <= WarnRemaining

NoFile ==
    [exists |-> FALSE, total_requests |-> 0, requests_this_month |-> 0,
     month_start |-> 0, nrequests |-> 0]

ExistingFile(c) ==
    [exists |-> TRUE, total_requests |-> c, requests_this_month |-> c,
     month_start |-> 0, nrequests |-> c]

\* record_request run by a single thread: read, update, write, warn.
record_request(q) ==
    LET stats == get_usage_stats(q.file, q.now)
        new == RecordedStats(stats, q.now)
    IN [q EXCEPT !.file = new,
                 !.completed = @ + 1,
                 !.resets = IF WindowExpired(stats, q.now) THEN @ + 1 ELSE @,
                 !.warnings = IF WarnsAfter(new) THEN @ + 1 ELSE @]

\* Concurrent callers of record_request (threads of the web app, or the
\* scanner processes, all writing the same file).
NumRecorders == 2
Recorders == 1..NumRecorders

QuotaStart(file) ==
    [file |-> file, now |-> 0, base |-> file.requests_this_month,
     begun |-> 0, failed |-> 0, completed |-> 0, resets |-> 0, warnings |-> 0,
     procs |-> [p \in Recorders |-> [pc |-> "idle", stats |-> NoFile, at |-> 0]]]

QuotaStarts == {QuotaStart(NoFile)} \cup {QuotaStart(ExistingFile(c)) : c \in InitialCounts}

\* The usage file between a recorder's open(USAGE_FILE, "w"), which
\* truncates it, and the end of its json.dump: json.load of the file
\* raises JSONDecodeError.
Torn(q) == \E p \in Recorders : q.procs[p].pc = "write"

(***************************************************************************)
(* SOURCE ADAPTERS: the retry loops of search_ebay_generic,                *)
(* search_facebook_marketplace, search_amazon_products, the Watch          *)
(* Database client's _make_request and fetch_psa_cert.                     *)
(***************************************************************************)

Adapters == {"ebay", "facebook", "amazon", "watchdb", "psa"}

\* Sources whose successful calls are reported to record_request.
Metered == {"facebook", "amazon"}

\* What one requests.get can end in: a response with a status code, a
\* timeout, a connection error, or a 200 whose body cannot be processed.
Resp(code) == [t |-> "http", code |-> code]
TimeoutEv == [t |-> "timeout", code |-> 0]
ConnErrEv == [t |-> "connerr", code |-> 0]
BadBodyEv == [t |-> "badbody", code |-> 200]

StatusCodes == {200, 400, 401, 403, 404, 429, 500, 502, 503, 504}
HttpEvents == {Resp(c) : c \in StatusCodes} \cup {TimeoutEv, ConnErrEv, BadBodyEv}

\* The tuple tested in the adapters' "except HTTPError" handlers.
RetryStatuses == {429, 500, 502, 503, 504}
AuthStatuses == {401, 403}

\* max_retries of each adapter (range(max_retries) attempts, except the
\* Watch Database client, which makes range(max_retries + 1) attempts).
EbayMaxRetries == 2
FacebookMaxRetries == 3
AmazonMaxRetries == 3
WatchDbMaxRetries == 3
PsaMaxRetries == 2

MaxAttempts(adapter) ==
    CASE adapter = "ebay" -> EbayMaxRetries
      [] adapter = "facebook" -> FacebookMaxRetries
      [] adapter = "amazon" -> AmazonMaxRetries
      [] adapter = "watchdb" -> WatchDbMaxRetries + 1
      [] adapter = "psa" -> PsaMaxRetries

\* What the loop body does with one attempt.
Retry == [act |-> "retry", exc |-> "", code |-> 0]
Success == [act |-> "return", exc |-> "", code |-> 0]
ReturnNone == [act |-> "none", exc |-> "", code |-> 0]
Raise(exc, code) == [act |-> "raise", exc |-> exc, code |-> code]

\* Truth value of a requests.Response object (Response.__bool__ is
\* Response.ok): false for every status an HTTPError is raised for.
ResponseTruthy(code) == code < 400

\* except requests.exceptions.HTTPError as e:
\*     if e.response and e.response.status_code in (429, 500, 502, 503, 504):
\*         if attempt < max_retries - 1: sleep; continue
\*     raise
HTTPErrorHandler(maxr, attempt, code) ==
    IF ResponseTruthy(code) /\ code \in RetryStatuses /\ attempt < maxr - 1
    THEN Retry
    ELSE Raise("HTTPError", code)

\* except Exception (or except Timeout):
\*     if attempt < max_retries - 1: sleep; continue
\*     raise
RetryingHandler(maxr, attempt, exc, code) ==
    IF attempt < maxr - 1 THEN Retry ELSE Raise(exc, code)

ExcOf(ev) ==
    CASE ev.t = "timeout" -> "Timeout"
      [] ev.t = "connerr" -> "ConnectionError"
      [] ev.t = "badbody" -> "ValueError"
      [] OTHER -> "HTTPError"

\* search_ebay_generic, for a response that is not the first 401 of a
\* call with refresh credentials: raise_for_status, then the handlers.
EbayOutcome(attempt, ev) ==
    IF ev.t # "http"
    THEN RetryingHandler(EbayMaxRetries, attempt, ExcOf(ev), 0)
    ELSE IF ev.code >= 400
    THEN HTTPErrorHandler(EbayMaxRetries, attempt, ev.code)
    ELSE Success

\* A Facebook adapter whose last 429 falls out of the loop and returns
\* the (empty) item list.
FacebookOutcomeSwallows(attempt, ev) ==
    IF ev.t # "http"
    THEN RetryingHandler(FacebookMaxRetries, attempt, ExcOf(ev), 0)
    ELSE IF ev.code \in AuthStatuses \/ ev.code = 429
    THEN IF attempt < FacebookMaxRetries - 1 THEN Retry ELSE Success
    ELSE IF ev.code >= 400
    THEN HTTPErrorHandler(FacebookMaxRetries, attempt, ev.code)
    ELSE Success

\* search_facebook_marketplace: 401/403 and 429 raise ValueError inside
\* the try, which lands in "except Exception"; timeouts have their own
\* retrying handler; other statuses go through raise_for_status.
FacebookOutcome(attempt, ev) ==
    IF ev.t # "http"
    THEN RetryingHandler(FacebookMaxRetries, attempt, ExcOf(ev), 0)
    ELSE IF ev.code \in AuthStatuses \/ ev.code = 429
    THEN RetryingHandler(FacebookMaxRetries, attempt, "ValueError", ev.code)
    ELSE IF ev.code >= 400
    THEN HTTPErrorHandler(FacebookMaxRetries, attempt, ev.code)
    ELSE Success

\* search_amazon_products: 401/403 go through raise_for_status, 429
\* raises ValueError into "except Exception: raise"; only timeouts retry.
AmazonOutcome(attempt, ev) ==
    IF ev.t = "timeout"
    THEN RetryingHandler(AmazonMaxRetries, attempt, "Timeout", 0)
    ELSE IF ev.t # "http"
    THEN Raise(ExcOf(ev), 0)
    ELSE IF ev.code \in AuthStatuses
    THEN HTTPErrorHandler(AmazonMaxRetries, attempt, ev.code)
    ELSE IF ev.code = 429
    THEN Raise("ValueError", ev.code)
    ELSE IF ev.code >= 400
    THEN HTTPErrorHandler(AmazonMaxRetries, attempt, ev.code)
    ELSE Success

\* _make_request: 429 retries through _handle_rate_limit, every other
\* error status and every RequestException returns None.  response.json()
\* on a bad body raises a RequestException or a plain ValueError,
\* depending on the requests version.
WatchDbOutcomes(attempt, ev) ==
    IF ev.t = "timeout"
    THEN {IF attempt < WatchDbMaxRetries THEN Retry ELSE ReturnNone}
    ELSE IF ev.t = "connerr"
    THEN {ReturnNone}
    ELSE IF ev.t = "badbody"
    THEN {ReturnNone, Raise("ValueError", 0)}
    ELSE IF ev.code = 429
    THEN {IF attempt >= WatchDbMaxRetries THEN ReturnNone ELSE Retry}
    ELSE IF ev.code >= 400
    THEN {ReturnNone}
    ELSE {Success}

\* fetch_psa_cert: 401 returns the empty record at once, 500 and every
\* RequestException (raise_for_status included) retry while an attempt
\* is left and return the empty record after the last one.
\* response.json() on a bad body raises a RequestException or a plain
\* ValueError, depending on the requests version.
PsaHandler(attempt) ==
    IF attempt < PsaMaxRetries - 1 THEN Retry ELSE ReturnNone

PsaOutcomes(attempt, ev) ==
    IF ev.t = "badbody"
    THEN {PsaHandler(attempt), Raise("ValueError", 0)}
    ELSE IF ev.t # "http"
    THEN {PsaHandler(attempt)}
    ELSE IF ev.code = 401
    THEN {ReturnNone}
    ELSE IF ev.code >= 400
    THEN {PsaHandler(attempt)}
    ELSE {Success}

Outcomes(adapter, attempt, ev) ==
    CASE adapter = "ebay" -> {EbayOutcome(attempt, ev)}
      [] adapter = "facebook" -> {FacebookOutcome(attempt, ev)}
      [] adapter = "amazon" -> {AmazonOutcome(attempt, ev)}
      [] adapter = "watchdb" -> WatchDbOutcomes(attempt, ev)
      [] adapter = "psa" -> PsaOutcomes(attempt, ev)

\* Adapter calls made in one run of the model.
MaxCalls == 2

CallIdle(made, metered) ==
    [status |-> "idle", adapter |-> "ebay", creds |-> FALSE, attempt |-> 0,
     responses |-> <<>>, sleeps |-> 0, recorded |-> 0,
     error |-> Raise("", 0), made |-> made, metered |-> metered]

\* A caller invokes an adapter's search function.
StartCall ==
    /\ call.status = "idle"
    /\ call.made < MaxCalls
    /\ \E adapter \in Adapters, creds \in BOOLEAN :
         /\ (creds => adapter = "ebay")
         /\ call' = [call EXCEPT !.status = "running", !.adapter = adapter,
                                 !.creds = creds, !.made = @ + 1]
    /\ UNCHANGED <<chain, quota, fan, match, arb, norm, fetch, web>>

\* record_request is called inside the adapter's try block and catches
\* nothing itself: its JSONDecodeError lands in "except Exception", which
\* retries the request in search_facebook_marketplace and re-raises in
\* search_amazon_products.
Recorded(c, q, out) ==
    IF out.act = "return" /\ c.adapter \in Metered /\ Torn(q)
    THEN IF c.adapter = "facebook"
         THEN RetryingHandler(FacebookMaxRetries, c.attempt, "JSONDecodeError", 0)
         ELSE Raise("JSONDecodeError", 0)
    ELSE out

\* The state of the call and of the usage file after the loop body has
\* ended one attempt, whose requests answered evs, with out.
AfterOutcome(c, q, evs, out) ==
    LET c1 == [c EXCEPT !.responses = @ \o evs,
                        !.metered = IF c.adapter \in Metered
                                    THEN @ + Len(evs) ELSE @]
    IN CASE out.act = "retry" ->
              <<[c1 EXCEPT !.attempt = @ + 1, !.sleeps = @ + 1], q>>
         [] out.act = "raise" ->
              <<[c1 EXCEPT !.status = "raised", !.error = out], q>>
         [] out.act = "none" ->
              <<[c1 EXCEPT !.status = "returned_none"], q>>
         [] out.act = "return" ->
              IF c.adapter \in Metered
              THEN <<[c1 EXCEPT !.status = "returned", !.recorded = @ + 1],
                     record_request(q)>>
              ELSE <<[c1 EXCEPT !.status = "returned"], q>>

\* The state of the call and of the usage file after the loop body has
\* dealt with one attempt whose requests answered evs.
AfterAttempt(c, q, evs, out) == AfterOutcome(c, q, evs, Recorded(c, q, out))

\* A search_ebay_generic that refreshes the token in any attempt.
RefreshesAtAny(attempt) == TRUE

\* "if env.get('EBAY_CLIENT_ID') and env.get('EBAY_CLIENT_SECRET') and
\* attempt == 0": the attempts in which a 401 refreshes the token.
RefreshesAt(attempt) == attempt = 0

\* One pass through the loop body: the request, the status checks and
\* the exception handlers.  Every last attempt ends in break, return or
\* raise, so the statement after the loop is reached through break only.
Attempt ==
    /\ call.status = "running"
    /\ call.attempt < MaxAttempts(call.adapter)
    /\ \E ev \in HttpEvents :
         \E out \in Outcomes(call.adapter, call.attempt, ev) :
           /\ ~(call.adapter = "ebay" /\ ev = Resp(401) /\ call.creds
                /\ RefreshesAt(call.attempt))
           /\ call' = AfterAttempt(call, quota, <<ev>>, out)[1]
           /\ quota' = AfterAttempt(call, quota, <<ev>>, out)[2]
    /\ UNCHANGED <<chain, fan, match, arb, norm, fetch, web>>

\* search_ebay_generic on a 401 at attempt 0 with EBAY_CLIENT_ID/SECRET
\* set: refresh the token and, if that worked, send the request again.
EbayRefresh ==
    /\ call.status = "running"
    /\ call.attempt < MaxAttempts(call.adapter)
    /\ call.adapter = "ebay" /\ call.creds /\ RefreshesAt(call.attempt)
    /\ \/ \* get_oauth_token returned no token: raise_for_status on the 401
          LET after == AfterAttempt(call, quota, <<Resp(401)>>,
                                    HTTPErrorHandler(EbayMaxRetries,
                                                     call.attempt, 401))
          IN call' = after[1] /\ quota' = after[2]
       \/ \E ev2 \in HttpEvents :
            LET after == AfterAttempt(call, quota, <<Resp(401), ev2>>,
                                      EbayOutcome(call.attempt, ev2))
            IN call' = after[1] /\ quota' = after[2]
    /\ UNCHANGED <<chain, fan, match, arb, norm, fetch, web>>

CallFinished == call.status \in {"returned", "returned_none", "raised"}

\* The caller has the result; the next call may start.
CallDone ==
    /\ CallFinished
    /\ call' = CallIdle(call.made, call.metered)
    /\ UNCHANGED <<chain, quota, fan, match, arb, norm, fetch, web>>

InitCall ==
    /\ chain = Idle
    /\ call = CallIdle(0, 0)
    /\ quota \in QuotaStarts
    /\ fan = Idle
    /\ match = Idle
    /\ arb = Idle
    /\ norm = Idle
    /\ fetch = Idle
    /\ web = Idle

NextCall == StartCall \/ Attempt \/ EbayRefresh \/ CallDone

SpecCall == InitCall /\ [][NextCall]_vars

\* The adapter functions run to their end: every request has a timeout
\* and every sleep is finite, so a running call takes its next attempt.
SpecCallFair == SpecCall /\ WF_vars(Attempt)

\* The count the Quota Guard holds for the current window.
CountNow == IF quota.file.exists THEN quota.file.requests_this_month ELSE 0

IsStatus(ev, codes) == ev.t = "http" /\ ev.code \in codes

\* C3 as stated: a call that ends on a 429/500/502/503/504 response has
\* been retried twice before (the failure surfaces on the third attempt).
C3_RetriedTwiceBeforeSurfacing ==
    (/\ CallFinished
     /\ call.responses # <<>>
     /\ IsStatus(call.responses[Len(call.responses)], RetryStatuses))
    => call.attempt = 2

\* C4 as stated: a 401 or 403 response is the last request of its call
\* (no retry, no backoff sleep after it) and the call ends at once by
\* raising the authentication error.
C4_AuthNeverRetried ==
    \A i \in 1..Len(call.responses) :
      IsStatus(call.responses[i], AuthStatuses) =>
        /\ i = Len(call.responses)
        /\ call.status = "raised"
        /\ call.error.code = call.responses[i].code

\* C5: a call that got exactly three responses, all of them 429, ends by
\* raising the rate-limit error to its caller (it neither returns a
\* result nor ends with another exception).
C5_RateLimitSurfaced ==
    (CallFinished /\ call.responses = <<Resp(429), Resp(429), Resp(429)>>)
    => (call.status = "raised" /\ call.error.code = 429)

\* The Facebook adapter raised after its third 429 in a row.
C5_Witness ==
    /\ call.status = "raised"
    /\ call.adapter = "facebook"
    /\ call.responses = <<Resp(429), Resp(429), Resp(429)>>
    /\ call.sleeps = 2
    /\ call.error = Raise("ValueError", 429)

\* C6 as stated: the Quota Guard's count has grown by one for every
\* request attempt made to a metered source, failed and retried attempts
\* included.
C6_EveryAttemptRecorded ==
    quota.resets = 0 => CountNow = quota.base + call.metered

\* The quota state the tracker keeps for a metered source: USAGE_FILE is
\* one path and record_request takes no source argument, so every source
\* is measured by the same count, window start and warning.
QuotaState(source) ==
    [count |-> CountNow,
     window_start |-> quota.file.month_start,
     warnings |-> quota.warnings]

\* C22: a call that returns from one metered source leaves the quota
\* state of every other metered source as it was.
C22_OneStatePerSource ==
    [][\A source \in Metered :
         (/\ call.status = "running"
          /\ call'.status = "returned"
          /\ call.adapter \in Metered
          /\ call.adapter # source)
         => QuotaState(source)' = QuotaState(source)]_vars

\* The new responses of this step.
Received(i) == i > Len(call.responses) /\ i <= Len(call'.responses)

\* C23: every step in which a 429 response arrives raises the number of
\* warnings the Quota Guard has given.
C23_RateLimitWarns ==
    [][(\E i \in 1..Len(call'.responses) :
          Received(i) /\ call'.responses[i] = Resp(429))
       => quota'.warnings > quota.warnings]_vars

\* Client errors other than the authentication and rate-limit statuses.
OtherClientErrors == {c \in StatusCodes : c >= 400 /\ c < 500} \ (AuthStatuses \cup {429})

\* C24: a call whose last response is a client error other than 401, 403
\* and 429 ends by returning nothing or an empty result, not by raising.
C24_ClientErrorIsNoData ==
    (/\ CallFinished
     /\ call.responses # <<>>
     /\ IsStatus(call.responses[Len(call.responses)], OtherClientErrors))
    => call.status \in {"returned", "returned_none"}

\* C29 as stated: a call sends at most max_retries requests to its search
\* endpoint, max_retries + 1 in the Watch Database client.
C29_AtMostMaxRetries == Len(call.responses) <= MaxAttempts(call.adapter)

\* The requests a call may send: one per attempt, and one more in
\* search_ebay_generic when a 401 makes it refresh the token.
RequestBound ==
    MaxAttempts(call.adapter)
      + (IF call.adapter = "ebay" /\ call.creds THEN 1 ELSE 0)

\* C29: every adapter call ends, and it never sends more requests than
\* one per attempt (max_retries attempts, max_retries + 1 in the Watch
\* Database client) plus the one request search_ebay_generic repeats
\* after a token refresh.
C29_TerminatesWithinBound ==
    /\ [](Len(call.responses) <= RequestBound)
    /\ (call.status = "running" ~> CallFinished)

\* A search_ebay_generic call that sent three requests: a 401, the
\* request repeated after the refresh, and the second attempt.
C29_Witness ==
    /\ CallFinished
    /\ call.adapter = "ebay"
    /\ call.creds
    /\ call.attempt = EbayMaxRetries - 1
    /\ Len(call.responses) = EbayMaxRetries + 1
    /\ call.responses[1] = Resp(401)

(***************************************************************************)
(* Concurrent recorders: record_request is a read of the usage file        *)
(* (get_usage_stats), an update in memory and a write, with no lock.       *)
(***************************************************************************)

\* Recordings started in one run of the model.
MaxRecords == 3

Started == quota.begun

\* record_request up to "stats = get_usage_stats()" and the reading of
\* the clock; json.load raises on a file another recorder has open for
\* writing, and record_request ends with that exception.
BeginRecord(p) ==
    /\ quota.procs[p].pc = "idle"
    /\ Started < MaxRecords
    /\ quota' = IF Torn(quota)
                THEN [quota EXCEPT !.begun = @ + 1, !.failed = @ + 1]
                ELSE [quota EXCEPT
                        !.begun = @ + 1,
                        !.procs[p] = [pc |-> "read",
                                      stats |-> get_usage_stats(quota.file, quota.now),
                                      at |-> quota.now]]
    /\ UNCHANGED <<chain, call, fan, match, arb, norm, fetch, web>>

\* The reset check and the increments in memory, then
\* open(USAGE_FILE, "w").
OpenForWrite(p) ==
    /\ quota.procs[p].pc = "read"
    /\ quota' = [quota EXCEPT !.procs[p].pc = "write"]
    /\ UNCHANGED <<chain, call, fan, match, arb, norm, fetch, web>>

\* The rest of record_request: json.dump, close, warning.
FinishRecord(p) ==
    /\ quota.procs[p].pc = "write"
    /\ LET mine == quota.procs[p]
           new == RecordedStats(mine.stats, mine.at)
       IN quota' = [quota EXCEPT
                      !.file = new,
                      !.completed = @ + 1,
                      !.resets = IF WindowExpired(mine.stats, mine.at)
                                 THEN @ + 1 ELSE @,
                      !.warnings = IF WarnsAfter(new) THEN @ + 1 ELSE @,
                      !.procs[p] = [pc |-> "idle", stats |-> NoFile, at |-> 0]]
    /\ UNCHANGED <<chain, call, fan, match, arb, norm, fetch, web>>

\* Time passes.
Tick ==
    /\ quota.now + DayStep <= MaxDay
    /\ quota' = [quota EXCEPT !.now = @ + DayStep]
    /\ UNCHANGED <<chain, call, fan, match, arb, norm, fetch, web>>

\* A usage file whose window started on day 1, so that the clock also
\* reaches the 31st day of a window.
LateFile == [ExistingFile(25) EXCEPT !.month_start = 1]

InitQuota ==
    /\ chain = Idle
    /\ call = Idle
    /\ quota \in QuotaStarts \cup {QuotaStart(LateFile)}
    /\ fan = Idle
    /\ match = Idle
    /\ arb = Idle
    /\ norm = Idle
    /\ fetch = Idle
    /\ web = Idle

NextQuota ==
    \/ \E p \in Recorders : BeginRecord(p)
    \/ \E p \in Recorders : OpenForWrite(p)
    \/ \E p \in Recorders : FinishRecord(p)
    \/ Tick

SpecQuota == InitQuota /\ [][NextQuota]_vars

\* The adapter calls of one process, made while one other process
\* records its own requests in the same usage file.
OtherProcess == CHOOSE p \in Recorders : TRUE

NextGuard ==
    \/ StartCall
    \/ Attempt
    \/ EbayRefresh
    \/ CallDone
    \/ BeginRecord(OtherProcess)
    \/ OpenForWrite(OtherProcess)
    \/ FinishRecord(OtherProcess)

SpecGuard == InitCall /\ [][NextGuard]_vars

\* C20: the Quota Guard never fails an outbound call: whatever the count
\* and whatever other recorders do, a request to a metered source that
\* was answered 200 is the last request of its call, and the call
\* returns its result.
C20_GuardNeverFailsCall ==
    \A i \in 1..Len(call.responses) :
      (call.adapter \in Metered /\ call.responses[i] = Resp(200)) =>
        (i = Len(call.responses) /\ call.status = "returned")

AllRecordersIdle == \A p \in Recorders : quota.procs[p].pc = "idle"

\* C7 as stated: once N recordings have completed, with no window reset
\* in between, the recorded count has grown by exactly N, whatever the
\* interleaving of the recorders.
C7_NoLostUpdates ==
    (AllRecordersIdle /\ quota.resets = 0)
    => CountNow = quota.base + quota.completed

\* The recorder p writes the usage file in this step.
Writes(p) == quota.procs[p].pc = "write" /\ quota'.procs[p].pc = "idle"

\* C21: a recording whose clock reading is more than the window (31
\* whole days) past the window start it read writes a count restarted
\* from zero (1 with the call itself) and moves the window start to that
\* clock reading; every other recording adds one to the count it read and
\* leaves the window start alone.
C21_ResetOnlyOnExpiry ==
    [][\A p \in Recorders :
         Writes(p) =>
           IF quota.procs[p].at - quota.procs[p].stats.month_start > WindowDays
           THEN /\ quota'.file.requests_this_month = 1
                /\ quota'.file.month_start = quota.procs[p].at
                /\ quota'.resets = quota.resets + 1
           ELSE /\ quota'.file.requests_this_month =
                      quota.procs[p].stats.requests_this_month + 1
                /\ quota'.file.month_start = quota.procs[p].stats.month_start
                /\ quota'.resets = quota.resets]_vars

\* The file whose window started on day 1 took one recording that left
\* the window alone and one, on day 48, that restarted it.
C21_Witness ==
    /\ quota.base = 25
    /\ quota.completed = 2
    /\ quota.resets = 1
    /\ quota.now = 48
    /\ quota.file.month_start = 48
    /\ quota.file.requests_this_month = 1

(***************************************************************************)
(* MULTI-SOURCE FAN-OUT: the /api/search handler of app.py and main() of   *)
(* scanners/luxury_scanner.py, which query eBay, Facebook Marketplace and  *)
(* Amazon one after the other.                                             *)
(***************************************************************************)

Sources == <<"ebay", "facebook", "amazon">>
SourceSet == {"ebay", "facebook", "amazon"}
Drivers == {"app", "scanner"}

\* Listings one adapter call can return.
MaxListings == 2

\* "for ebay_item in items[:5]" of the scanner's Amazon step.
ScannerAmazonLimit == 5

\* An adapter call either raises or returns a list of n listings.
CallRaised == [ok |-> FALSE, n |-> 0]
CallReturned(n) == [ok |-> TRUE, n |-> n]
AdapterResults == {CallRaised} \cup {CallReturned(n) : n \in 0..MaxListings}

FanIdle ==
    [status |-> "idle", driver |-> "app", key |-> FALSE, step |-> 1,
     reached |-> {}, log |-> <<>>, errors |-> 0, amazonLeft |-> 0]

\* Listings the run holds for source s: what its successful calls returned.
RECURSIVE SumOk(_, _)
SumOk(log, s) ==
    IF log = <<>> THEN 0
    ELSE (IF log[1].src = s /\ log[1].ok THEN log[1].n ELSE 0)
         + SumOk(Tail(log), s)

Listings(s) == SumOk(fan.log, s)

Queried == {fan.log[i].src : i \in 1..Len(fan.log)}

\* Sources every call to which raised.
FailedSources ==
    {s \in Queried : \A i \in 1..Len(fan.log) :
                        fan.log[i].src = s => ~fan.log[i].ok}

Logged(f, s, r) == [f EXCEPT !.log = Append(@, [src |-> s, ok |-> r.ok, n |-> r.n])]

\* A request arrives (app) or the scanner is started; RAPIDAPI_KEY is set
\* or not.
StartFan ==
    /\ fan.status = "idle"
    /\ \E driver \in Drivers, key \in BOOLEAN :
         fan' = [FanIdle EXCEPT !.status = "running", !.driver = driver,
                                !.key = key]
    /\ UNCHANGED <<chain, call, quota, match, arb, norm, fetch, web>>

\* The eBay step.  app.py: try / except Exception -> errors.append.
\* luxury_scanner.py: search_luxury_items is called outside any try, so
\* its exception leaves main().
AfterEbay(f, r) ==
    LET g == [Logged(f, "ebay", r) EXCEPT !.reached = @ \cup {"ebay"},
                                          !.step = 2]
    IN IF r.ok THEN g
       ELSE IF f.driver = "app" THEN [g EXCEPT !.errors = @ + 1]
       ELSE [g EXCEPT !.status = "aborted"]

SearchEbay ==
    /\ fan.status = "running" /\ fan.step = 1
    /\ \E r \in AdapterResults : fan' = AfterEbay(fan, r)
    /\ UNCHANGED <<chain, call, quota, match, arb, norm, fetch, web>>

\* Whether the driver calls the RapidAPI adapters at all: app.py needs
\* the key, the scanner the key and a non-empty eBay result.
CallsRapidApi(f) ==
    IF f.driver = "app" THEN f.key
    ELSE f.key /\ SumOk(f.log, "ebay") > 0

\* The Facebook step: one call inside try / except Exception.
SearchFacebook ==
    /\ fan.status = "running" /\ fan.step = 2
    /\ LET g == [fan EXCEPT !.reached = @ \cup {"facebook"}, !.step = 3,
                            !.amazonLeft =
                               IF fan.driver = "app" THEN 1
                               ELSE IF SumOk(fan.log, "ebay") < ScannerAmazonLimit
                                    THEN SumOk(fan.log, "ebay")
                                    ELSE ScannerAmazonLimit]
       IN IF ~CallsRapidApi(fan)
          THEN fan' = (IF fan.driver = "app"
                       THEN [g EXCEPT !.errors = @ + 1] ELSE g)
          ELSE \E r \in AdapterResults :
                 fan' = (IF r.ok THEN Logged(g, "facebook", r)
                         ELSE [Logged(g, "facebook", r) EXCEPT !.errors = @ + 1])
    /\ UNCHANGED <<chain, call, quota, match, arb, norm, fetch, web>>

\* The Amazon step: one call (app.py), or one call per eBay item that
\* yields a targeted query (scanner), each inside try / except Exception.
SearchAmazon ==
    /\ fan.status = "running" /\ fan.step = 3
    /\ LET g == [fan EXCEPT !.reached = @ \cup {"amazon"},
                            !.amazonLeft = IF @ > 0 THEN @ - 1 ELSE 0]
           last == fan.amazonLeft <= 1 \/ ~CallsRapidApi(fan)
           h == IF last THEN [g EXCEPT !.status = "matching"] ELSE g
       IN IF ~CallsRapidApi(fan)
          THEN fan' = (IF fan.driver = "app"
                       THEN [h EXCEPT !.errors = @ + 1] ELSE h)
          ELSE \/ \E r \in AdapterResults :
                    fan' = (IF r.ok THEN Logged(h, "amazon", r)
                            ELSE [Logged(h, "amazon", r) EXCEPT !.errors = @ + 1])
               \/ \* generate_targeted_amazon_query gave no query: continue
                  /\ fan.driver = "scanner"
                  /\ fan' = h
    /\ UNCHANGED <<chain, call, quota, match, arb, norm, fetch, web>>

\* The run ends: the results go on to the matcher, or the exception has
\* ended the process.
FanDone ==
    /\ fan.status \in {"matching", "aborted"}
    /\ fan' = FanIdle
    /\ UNCHANGED <<chain, call, quota, match, arb, norm, fetch, web>>

InitFan ==
    /\ chain = Idle
    /\ call = Idle
    /\ quota = Idle
    /\ fan = FanIdle
    /\ match = Idle
    /\ arb = Idle
    /\ norm = Idle
    /\ fetch = Idle
    /\ web = Idle

NextFan == StartFan \/ SearchEbay \/ SearchFacebook \/ SearchAmazon \/ FanDone

SpecFan == InitFan /\ [][NextFan]_vars

\* C8 as stated: a failing source adapter never aborts the fan-out; the
\* run still goes through every other source, and a source whose calls
\* failed contributes zero listings.
C8_FailureNeverAborts ==
    /\ fan.status # "aborted"
    /\ fan.status = "matching" =>
         /\ fan.reached = SourceSet
         /\ \A s \in FailedSources : Listings(s) = 0

(***************************************************************************)
(* CROSS-PLATFORM MATCHING: lib/arbitrage_comparison.py.  Titles, brands,  *)
(* sizes and conditions are strings, written as sequences of characters    *)
(* over letters, digits, space, ":", "." and "-".  Scores are Python       *)
(* floats in the code and exact fractions here.                            *)
(***************************************************************************)

UpperLetters ==
    <<"A", "B", "C", "D", "E", "F", "G", "H", "I", "J", "K", "L", "M", "N", "O", "P", "Q", "R", "S", "T", "U", "V", "W", "X", "Y", "Z">>
LowerLetters ==
    <<"a", "b", "c", "d", "e", "f", "g", "h", "i", "j", "k", "l", "m", "n", "o", "p", "q", "r", "s", "t", "u", "v", "w", "x", "y", "z">>
Digits == {"0", "1", "2", "3", "4", "5", "6", "7", "8", "9"}

IndexOf(c, letters) == CHOOSE i \in 1..Len(letters) : letters[i] = c

LowerChar(c) ==
    IF \E i \in 1..Len(UpperLetters) : UpperLetters[i] = c
    THEN LowerLetters[IndexOf(c, UpperLetters)]
    ELSE c

\* str.lower()
RECURSIVE Lower(_)
Lower(s) == IF s = <<>> THEN <<>> ELSE <<LowerChar(Head(s))>> \o Lower(Tail(s))

\* "sub in s"
Contains(sub, s) ==
    \E i \in 1..(Len(s) - Len(sub) + 1) : SubSeq(s, i, i + Len(sub) - 1) = sub

IsDigit(c) == c \in Digits
IsAlnum(c) == IsDigit(c) \/ \E i \in 1..Len(LowerLetters) : LowerLetters[i] = c

\* Fractions with a positive denominator, kept in lowest terms.
RECURSIVE Gcd(_, _)
Gcd(a, b) == IF b = 0 THEN a ELSE Gcd(b, a % b)

Abs(x) == IF x < 0 THEN 0 - x ELSE x

Rat(n, d) ==
    LET g == Gcd(Abs(n), d)
    IN [num |-> n \div g, den |-> d \div g]

RAdd(x, y) == Rat(x.num * y.den + y.num * x.den, x.den * y.den)
RMul(x, y) == Rat(x.num * y.num, x.den * y.den)
RGeq(x, y) == x.num * y.den >= y.num * x.den
RLess(x, y) == x.num * y.den < y.num * x.den
Zero == Rat(0, 1)
One == Rat(1, 1)

\* difflib.SequenceMatcher(None, a, b): length of the common run that
\* starts at a[i], b[j] and stays inside a[..ahi], b[..bhi].
RECURSIVE RunLength(_, _, _, _, _, _)
RunLength(a, b, i, j, ahi, bhi) ==
    IF i > ahi \/ j > bhi \/ a[i] # b[j] THEN 0
    ELSE 1 + RunLength(a, b, i + 1, j + 1, ahi, bhi)

\* find_longest_match: <<i, j, k>> of the longest block, the earliest
\* in a among the longest, the earliest in b among those.
BlockLength(a, b, starts, ahi, bhi) ==
    LET lengths == {RunLength(a, b, p[1], p[2], ahi, bhi) : p \in starts}
    IN CHOOSE x \in lengths : \A y \in lengths : x >= y

Earliest(blocks) ==
    CHOOSE p \in blocks :
        \A q \in blocks : p[1] < q[1] \/ (p[1] = q[1] /\ p[2] <= q[2])

EarliestBlock(a, b, starts, ahi, bhi, k) ==
    Earliest({p \in starts : RunLength(a, b, p[1], p[2], ahi, bhi) = k})
        \o <<k>>

find_longest_match(a, b, alo, ahi, blo, bhi) ==
    EarliestBlock(a, b, (alo..ahi) \X (blo..bhi), ahi, bhi,
                  BlockLength(a, b, (alo..ahi) \X (blo..bhi), ahi, bhi))

\* get_matching_blocks: total size of the blocks found by splitting
\* around the longest match, left and right.
RECURSIVE MatchedChars(_, _, _, _, _, _)
RECURSIVE SplitAround(_, _, _, _, _, _, _)
SplitAround(a, b, alo, ahi, blo, bhi, m) ==
    IF m[3] = 0 THEN 0
    ELSE m[3]
         + MatchedChars(a, b, alo, m[1] - 1, blo, m[2] - 1)
         + MatchedChars(a, b, m[1] + m[3], ahi, m[2] + m[3], bhi)

MatchedChars(a, b, alo, ahi, blo, bhi) ==
    IF alo > ahi \/ blo > bhi THEN 0
    ELSE SplitAround(a, b, alo, ahi, blo, bhi,
                     find_longest_match(a, b, alo, ahi, blo, bhi))

\* SequenceMatcher.ratio(): 2.0 * matches / (len(a) + len(b)).
ratio(a, b) ==
    IF Len(a) + Len(b) = 0 THEN One
    ELSE Rat(2 * MatchedChars(a, b, 1, Len(a), 1, Len(b)), Len(a) + Len(b))

similarity_score(str1, str2) ==
    IF str1 = <<>> \/ str2 = <<>> THEN Zero
    ELSE ratio(Lower(str1), Lower(str2))

stop_words ==
    {<<"t", "h", "e">>,
     <<"a">>,
     <<"a", "n">>,
     <<"a", "n", "d">>,
     <<"o", "r">>,
     <<"b", "u", "t">>,
     <<"i", "n">>,
     <<"o", "n">>,
     <<"a", "t">>,
     <<"t", "o">>,
     <<"f", "o", "r">>,
     <<"o", "f">>,
     <<"w", "i", "t", "h">>,
     <<"b", "y">>,
     <<"p", "s", "a">>,
     <<"g", "r", "a", "d", "e">>,
     <<"e", "d", "i", "t", "i", "o", "n">>}

\* re.findall(r'\b[a-z0-9]{3,}\b', text): the maximal runs of letters
\* and digits that are at least three characters long.
RECURSIVE Runs(_, _, _)
Runs(s, i, cur) ==
    IF i > Len(s) THEN (IF Len(cur) >= 3 THEN {cur} ELSE {})
    ELSE IF IsAlnum(s[i]) THEN Runs(s, i + 1, Append(cur, s[i]))
    ELSE (IF Len(cur) >= 3 THEN {cur} ELSE {}) \cup Runs(s, i + 1, <<>>)

extract_keywords(text) ==
    IF text = <<>> THEN {}
    ELSE {w \in Runs(Lower(text), 1, <<>>) : w \notin stop_words}

\* len(a & b) / max(len(a | b), 1)
KeywordOverlap(a, b) ==
    LET union == Cardinality(a \cup b)
    IN Rat(Cardinality(a \cap b), IF union > 1 THEN union ELSE 1)

\* A field whose value is Python's None rather than a string.
PyNone == <<"None">>

\* The outcome of one pairwise match: None, a CrossPlatformMatch, or the
\* AttributeError of None.lower().
NoMatch == [emitted |-> FALSE, raised |-> FALSE]
AttributeError == [emitted |-> FALSE, raised |-> TRUE]

CrossPlatformMatch(e, f, confidence, reason) ==
    LET ebay_price == e.price + e.shipping
        fb_price == f.price + f.shipping
    IN [emitted |-> TRUE, ebay_item |-> e, facebook_item |-> f,
        match_confidence |-> confidence,
        price_difference |-> Abs(ebay_price - fb_price),
        best_platform |-> IF fb_price < ebay_price THEN "Facebook" ELSE "eBay",
        match_reason |-> reason]

TitleWeight == Rat(4, 10)
KeywordWeight == Rat(3, 10)
Bonus == Rat(1, 10)
SizeBonus == Rat(2, 10)
SizePenalty == Rat(0 - 1, 10)
PricePenalty == Rat(5, 10)
CardThreshold == Rat(6, 10)
LuxuryThreshold == Rat(5, 10)

\* A matcher that returns every scored pair.
EmitsAll(confidence, threshold) == TRUE

\* "if confidence >= threshold"
Emits(confidence, threshold) == RGeq(confidence, threshold)

\* A matcher without the certificate shortcut.
ExactCertIgnored(e, f) == FALSE

\* "if ebay_cert and fb_cert and ebay_cert == fb_cert"
ExactCert(e, f) == e.cert # "" /\ f.cert # "" /\ e.cert = f.cert

\* price_ratio < 0.7, with both prices known
PricesDiverge(ebay_price, fb_price) ==
    /\ ebay_price > 0
    /\ fb_price > 0
    /\ LET lo == IF ebay_price < fb_price THEN ebay_price ELSE fb_price
           hi == IF ebay_price < fb_price THEN fb_price ELSE ebay_price
       IN 10 * lo < 7 * hi

CardScore(e, f) ==
    LET title_sim == similarity_score(e.title, f.title)
        keyword_overlap == KeywordOverlap(extract_keywords(e.title),
                                          extract_keywords(f.title))
        el == Lower(e.title)
        fl == Lower(f.title)
        psa_match == Contains(<<"p", "s", "a">>, el) /\ Contains(<<"p", "s", "a">>, fl)
        grade_match == Contains(<<"1", "0">>, e.title) /\ Contains(<<"1", "0">>, f.title)
        edition_match ==
            /\ Contains(<<"1", "s", "t">>, el) \/ Contains(<<"f", "i", "r", "s", "t">>, el)
            /\ Contains(<<"1", "s", "t">>, fl) \/ Contains(<<"f", "i", "r", "s", "t">>, fl)
    IN RAdd(RAdd(RAdd(RAdd(RMul(title_sim, TitleWeight),
                           RMul(keyword_overlap, KeywordWeight)),
                      IF psa_match THEN Bonus ELSE Zero),
                 IF grade_match THEN Bonus ELSE Zero),
            IF edition_match THEN Bonus ELSE Zero)

\* A matcher without the price check.
NeverPenalised(score, e, f) == score

\* "if price_ratio < 0.7: confidence *= 0.5"
Penalised(score, e, f) ==
    IF PricesDiverge(e.price + e.shipping, f.price + f.shipping)
    THEN RMul(score, PricePenalty) ELSE score

\* "if confidence >= threshold: return CrossPlatformMatch(...)" and the
\* final "return None".
EmitIf(e, f, confidence, threshold, reason) ==
    IF Emits(confidence, threshold)
    THEN CrossPlatformMatch(e, f, confidence, reason)
    ELSE NoMatch

match_trading_cards(e, f) ==
    IF ExactCert(e, f)
    THEN CrossPlatformMatch(e, f, One, "Exact cert match")
    ELSE EmitIf(e, f, Penalised(CardScore(e, f), e, f), CardThreshold,
                "Title similarity")

luxury_brands ==
    <<<<"g", "u", "c", "c", "i">>,
      <<"y", "s", "l">>,
      <<"s", "a", "i", "n", "t", " ", "l", "a", "u", "r", "e", "n", "t">>,
      <<"l", "o", "u", "i", "s", " ", "v", "u", "i", "t", "t", "o", "n">>,
      <<"p", "r", "a", "d", "a">>,
      <<"c", "h", "a", "n", "e", "l">>,
      <<"d", "i", "o", "r">>>>

\* "for brand in luxury_brands: if brand in title: ... break"
BrandInTitle(title_lower) ==
    LET hits == {i \in 1..Len(luxury_brands) :
                    Contains(luxury_brands[i], title_lower)}
    IN IF hits = {} THEN <<>>
       ELSE luxury_brands[CHOOSE i \in hits : \A j \in hits : i <= j]

BrandOf(item) ==
    IF Lower(item.brand) # <<>> THEN Lower(item.brand)
    ELSE BrandInTitle(Lower(item.title))

\* size_pattern = r'\b(size|sz)[\s:]*(\d+(?:\.\d+)?)'
StartsAt(sub, s, p) ==
    /\ p + Len(sub) - 1 <= Len(s)
    /\ SubSeq(s, p, p + Len(sub) - 1) = sub

WordChar(c) == IsAlnum(c) \/ c = "_"

RECURSIVE SkipSeparators(_, _)
SkipSeparators(s, q) ==
    IF q <= Len(s) /\ s[q] \in {" ", ":"} THEN SkipSeparators(s, q + 1) ELSE q

RECURSIVE DigitsEnd(_, _)
DigitsEnd(s, q) ==
    IF q <= Len(s) /\ IsDigit(s[q]) THEN DigitsEnd(s, q + 1) ELSE q

\* group(2) of a match that starts at p, or the empty string.
SizeAt(s, p) ==
    LET k == IF StartsAt(<<"s", "i", "z", "e">>, s, p) THEN p + 4
             ELSE IF StartsAt(<<"s", "z">>, s, p) THEN p + 2 ELSE 0
        q == SkipSeparators(s, k)
        r == DigitsEnd(s, q)
        t == DigitsEnd(s, r + 1)
    IN IF k = 0 \/ (p > 1 /\ WordChar(s[p - 1])) \/ r = q THEN <<>>
       ELSE IF r <= Len(s) /\ s[r] = "." /\ t > r + 1
            THEN SubSeq(s, q, t - 1)
            ELSE SubSeq(s, q, r - 1)

\* re.search: the leftmost match.
RECURSIVE SearchSize(_, _)
SearchSize(s, p) ==
    IF p > Len(s) THEN <<>>
    ELSE IF SizeAt(s, p) # <<>> THEN SizeAt(s, p)
    ELSE SearchSize(s, p + 1)

SizeOf(item) ==
    IF item.size # <<>> /\ item.size # PyNone THEN item.size
    ELSE SearchSize(Lower(item.title), 1)

IsNew(item) ==
    Contains(<<"n", "e", "w">>, Lower(item.condition)) \/ Contains(<<"n", "e", "w">>, Lower(item.title))

\* A matcher that accepts any two brands.
BrandsAgreeAlways(e, f) == TRUE

\* Lines 120-153: the pair is dropped unless the brands agree.
BrandsAgree(e, f) ==
    LET ebay_brand == BrandOf(e)
        fb_brand == BrandOf(f)
    IN /\ ~(ebay_brand # <<>> /\ fb_brand # <<>> /\ ebay_brand # fb_brand)
       /\ (ebay_brand = <<>> \/ fb_brand = <<>>) =>
             \E i \in 1..Len(luxury_brands) :
                 /\ Contains(luxury_brands[i], Lower(e.title))
                 /\ Contains(luxury_brands[i], Lower(f.title))

\* Lines 185-189: the size bonus or penalty.
SizeAdjustment(ebay_size, fb_size) ==
    IF ebay_size # <<>> /\ fb_size # <<>> /\ ebay_size = fb_size
    THEN SizeBonus
    ELSE IF ebay_size # <<>> \/ fb_size # <<>> THEN SizePenalty
    ELSE Zero

LuxuryScore(e, f) ==
    LET title_sim == similarity_score(e.title, f.title)
        keyword_overlap == KeywordOverlap(extract_keywords(e.title),
                                          extract_keywords(f.title))
    IN RAdd(RAdd(RAdd(RMul(title_sim, TitleWeight),
                      RMul(keyword_overlap, KeywordWeight)),
                 SizeAdjustment(SizeOf(e), SizeOf(f))),
            IF IsNew(e) = IsNew(f) THEN Bonus ELSE Zero)

\* item.get("brand", "").lower() and item.get("condition", "").lower()
\* raise when the key is present with the value None.
match_luxury_items(e, f) ==
    IF e.brand = PyNone \/ f.brand = PyNone THEN AttributeError
    ELSE IF ~BrandsAgree(e, f) THEN NoMatch
    ELSE IF e.condition = PyNone \/ f.condition = PyNone THEN AttributeError
    ELSE EmitIf(e, f, LuxuryScore(e, f), LuxuryThreshold, "Brand match")

\* Trading-card listings; a listing may carry a certificate number, and
\* a price the adapter could not read is 0.
CardEbayListings ==
    {[item_id |-> "e1", cert |-> "12345678", price |-> 100, shipping |-> 0,
     title |-> <<"C", "h", "a", "r", "i", "z", "a", "r", "d", " ", "P", "S", "A", " ", "1", "0", " ", "1", "s", "t">>,
     brand |-> <<>>, size |-> <<>>, condition |-> <<>>],
     [item_id |-> "e2", cert |-> "", price |-> 100, shipping |-> 10,
     title |-> <<"C", "h", "a", "r", "i", "z", "a", "r", "d", " ", "P", "S", "A", " ", "1", "0", " ", "1", "s", "t">>,
     brand |-> <<>>, size |-> <<>>, condition |-> <<>>],
     [item_id |-> "e3", cert |-> "87654321", price |-> 40, shipping |-> 0,
     title |-> <<"P", "i", "k", "a", "c", "h", "u", " ", "P", "S", "A", " ", "9">>,
     brand |-> <<>>, size |-> <<>>, condition |-> <<>>],
     [item_id |-> "e4", cert |-> "", price |-> 0, shipping |-> 0,
     title |-> <<>>,
     brand |-> <<>>, size |-> <<>>, condition |-> <<>>],
     [item_id |-> "e10", cert |-> "", price |-> 0, shipping |-> 0,
     title |-> <<"C", "h", "a", "r", "i", "z", "a", "r", "d", " ", "P", "S", "A", " ", "1", "0", " ", "1", "s", "t">>,
     brand |-> <<>>, size |-> <<>>, condition |-> <<>>]}

CardFacebookListings ==
    {[item_id |-> "f1", cert |-> "12345678", price |-> 50, shipping |-> 0,
     title |-> <<"p", "o", "k", "e", "m", "o", "n", " ", "c", "a", "r", "d", " ", "l", "o", "t">>,
     brand |-> <<>>, size |-> <<>>, condition |-> <<>>],
     [item_id |-> "f2", cert |-> "", price |-> 105, shipping |-> 0,
     title |-> <<"C", "h", "a", "r", "i", "z", "a", "r", "d", " ", "P", "S", "A", " ", "1", "0", " ", "1", "s", "t">>,
     brand |-> <<>>, size |-> <<>>, condition |-> <<>>],
     [item_id |-> "f3", cert |-> "", price |-> 50, shipping |-> 0,
     title |-> <<"c", "h", "a", "r", "i", "z", "a", "r", "d", " ", "p", "s", "a", " ", "1", "0", " ", "f", "i", "r", "s", "t">>,
     brand |-> <<>>, size |-> <<>>, condition |-> <<>>],
     [item_id |-> "f4", cert |-> "11112222", price |-> 40, shipping |-> 0,
     title |-> <<"P", "i", "k", "a", "c", "h", "u", " ", "P", "S", "A", " ", "1", "0">>,
     brand |-> <<>>, size |-> <<>>, condition |-> <<>>]}

\* Luxury listings come in two shapes: the web app passes dictionaries
\* without brand and size keys (read as ""), the scanner passes the
\* adapters' records, whose brand, size and condition are None when the
\* adapter found none.
LuxuryEbayListings ==
    {[item_id |-> "e5", cert |-> "", price |-> 300, shipping |-> 20,
     title |-> <<"G", "u", "c", "c", "i", " ", "L", "o", "a", "f", "e", "r", "s", " ", "S", "i", "z", "e", " ", "8", " ", "N", "e", "w">>,
     brand |-> <<>>, size |-> <<>>, condition |-> <<"N", "e", "w">>],
     [item_id |-> "e6", cert |-> "", price |-> 250, shipping |-> 0,
     title |-> <<"G", "u", "c", "c", "i", " ", "l", "o", "a", "f", "e", "r", "s">>,
     brand |-> <<"G", "u", "c", "c", "i">>, size |-> <<>>, condition |-> <<"U", "s", "e", "d">>],
     [item_id |-> "e7", cert |-> "", price |-> 80, shipping |-> 0,
     title |-> <<"V", "i", "n", "t", "a", "g", "e", " ", "l", "e", "a", "t", "h", "e", "r", " ", "b", "a", "g">>,
     brand |-> <<>>, size |-> <<>>, condition |-> <<>>],
     [item_id |-> "e8", cert |-> "", price |-> 400, shipping |-> 0,
     title |-> <<"P", "r", "a", "d", "a", " ", "b", "a", "g", " ", "s", "z", " ", "7", ".", "5">>,
     brand |-> <<"P", "r", "a", "d", "a">>, size |-> <<>>, condition |-> <<"N", "e", "w">>],
     [item_id |-> "e9", cert |-> "", price |-> 900, shipping |-> 0,
     title |-> <<"C", "h", "a", "n", "e", "l", " ", "f", "l", "a", "p", " ", "b", "a", "g">>,
     brand |-> PyNone, size |-> <<>>, condition |-> <<"U", "s", "e", "d">>]}

LuxuryFacebookListings ==
    {[item_id |-> "f5", cert |-> "", price |-> 280, shipping |-> 0,
     title |-> <<"g", "u", "c", "c", "i", " ", "l", "o", "a", "f", "e", "r", "s", " ", "s", "z", " ", "8", " ", "n", "e", "w">>,
     brand |-> <<>>, size |-> <<>>, condition |-> <<>>],
     [item_id |-> "f6", cert |-> "", price |-> 250, shipping |-> 0,
     title |-> <<"G", "u", "c", "c", "i", " ", "l", "o", "a", "f", "e", "r", "s">>,
     brand |-> <<"G", "u", "c", "c", "i">>, size |-> PyNone, condition |-> <<"A", "v", "a", "i", "l", "a", "b", "l", "e">>],
     [item_id |-> "f7", cert |-> "", price |-> 60, shipping |-> 0,
     title |-> <<"V", "i", "n", "t", "a", "g", "e", " ", "l", "e", "a", "t", "h", "e", "r", " ", "b", "a", "g">>,
     brand |-> <<>>, size |-> <<>>, condition |-> <<>>],
     [item_id |-> "f8", cert |-> "", price |-> 400, shipping |-> 0,
     title |-> <<"P", "r", "a", "d", "a", " ", "b", "a", "g", " ", "s", "i", "z", "e", " ", "9">>,
     brand |-> <<"P", "r", "a", "d", "a">>, size |-> <<"9">>, condition |-> PyNone],
     [item_id |-> "f9", cert |-> "", price |-> 60, shipping |-> 0,
     title |-> <<"V", "i", "n", "t", "a", "g", "e", " ", "l", "e", "a", "t", "h", "e", "r", " ", "b", "a", "g">>,
     brand |-> PyNone, size |-> PyNone, condition |-> <<"A", "v", "a", "i", "l", "a", "b", "l", "e">>],
     [item_id |-> "f10", cert |-> "", price |-> 380, shipping |-> 0,
     title |-> <<"P", "r", "a", "d", "a", " ", "b", "a", "g", " ", "s", "z", " ", "9", " ", "n", "e", "w">>,
     brand |-> <<>>, size |-> <<>>, condition |-> <<>>]}

ItemTypes == {"trading_cards", "luxury"}

EbayListings(item_type) ==
    IF item_type = "trading_cards" THEN CardEbayListings ELSE LuxuryEbayListings

FacebookListings(item_type) ==
    IF item_type = "trading_cards" THEN CardFacebookListings
    ELSE LuxuryFacebookListings

\* Listings per source in one comparison.
MaxItems == 2

ItemLists(listings) == UNION {[1..n -> listings] : n \in 0..MaxItems}

\* The matchers are pure, so each pair of listings is scored once.
CardOutcomes ==
    {<<e, f, match_trading_cards(e, f)>> :
        e \in CardEbayListings, f \in CardFacebookListings}

LuxuryOutcomes ==
    {<<e, f, match_luxury_items(e, f)>> :
        e \in LuxuryEbayListings, f \in LuxuryFacebookListings}

\* "match_func = match_trading_cards if item_type == "trading_cards" else
\* match_luxury_items", applied to one pair.
match_func(item_type, e, f) ==
    LET outcomes == IF item_type = "trading_cards" THEN CardOutcomes
                    ELSE LuxuryOutcomes
    IN (CHOOSE r \in outcomes : r[1] = e /\ r[2] = f)[3]

\* "for ebay_item in ebay_items: for fb_item in fb_items": the outcome of
\* every pair, in loop order.
AllPairs(ebay_items, fb_items, item_type) ==
    [k \in 1..(Len(ebay_items) * Len(fb_items)) |->
        LET e == ebay_items[((k - 1) \div Len(fb_items)) + 1]
            f == fb_items[((k - 1) % Len(fb_items)) + 1]
        IN [ebay_item |-> e, facebook_item |-> f,
            out |-> match_func(item_type, e, f)]]

Raising(out) == ~out.emitted /\ out.raised

\* The loop ends at the first pair that raises.
UpToFirstRaise(all) ==
    IF \A k \in 1..Len(all) : ~Raising(all[k].out) THEN all
    ELSE SubSeq(all, 1, CHOOSE k \in 1..Len(all) :
                           /\ Raising(all[k].out)
                           /\ \A j \in 1..(k - 1) : ~Raising(all[j].out))

PairOutcomes(ebay_items, fb_items, item_type) ==
    UpToFirstRaise(AllPairs(ebay_items, fb_items, item_type))

Raises(outcomes) ==
    outcomes # <<>> /\ Raising(outcomes[Len(outcomes)].out)

\* list.sort(key=match_confidence, reverse=True): stable, highest first.
RECURSIVE InsertByConfidence(_, _)
InsertByConfidence(sorted, m) ==
    IF sorted = <<>> THEN <<m>>
    ELSE IF RLess(Head(sorted).match_confidence, m.match_confidence)
         THEN <<m>> \o sorted
         ELSE <<Head(sorted)>> \o InsertByConfidence(Tail(sorted), m)

RECURSIVE SortedMatches(_, _)
SortedMatches(outcomes, k) ==
    IF k = 0 THEN <<>>
    ELSE IF outcomes[k].out.emitted
         THEN InsertByConfidence(SortedMatches(outcomes, k - 1), outcomes[k].out)
         ELSE SortedMatches(outcomes, k - 1)

compare_ebay_facebook(outcomes) == SortedMatches(outcomes, Len(outcomes))

\* calculate_cross_platform_spread has not been called.
NoSpread == [computed |-> FALSE]

MatchIdle ==
    [status |-> "idle", func |-> "", item_type |-> "luxury",
     ebay_items |-> <<>>, fb_items |-> <<>>, amazon_items |-> <<>>,
     outcomes |-> <<>>,
     matches |-> <<>>, error |-> "", spread |-> NoSpread]

\* What the call leaves behind: the sorted list, or no list when a pair
\* raised.
Compared(item_type, ebay_items, fb_items, outcomes) ==
    [status |-> IF Raises(outcomes) THEN "raised" ELSE "returned",
     func |-> "compare_ebay_facebook",
     item_type |-> item_type, ebay_items |-> ebay_items,
     fb_items |-> fb_items, amazon_items |-> <<>>, outcomes |-> outcomes,
     matches |-> IF Raises(outcomes) THEN <<>>
                 ELSE compare_ebay_facebook(outcomes),
     error |-> IF Raises(outcomes) THEN "AttributeError" ELSE "",
     spread |-> NoSpread]

\* One call of compare_ebay_facebook, from the argument lists to the
\* sorted list it returns or the exception that leaves it.
Compare ==
    /\ match.status = "idle"
    /\ \E item_type \in ItemTypes :
         \E ebay_items \in ItemLists(EbayListings(item_type)),
            fb_items \in ItemLists(FacebookListings(item_type)) :
           match' = Compared(item_type, ebay_items, fb_items,
                             PairOutcomes(ebay_items, fb_items, item_type))
    /\ UNCHANGED <<chain, call, quota, fan, arb, norm, fetch, web>>

\* compare_all_platforms runs compare_ebay_facebook and then
\* compare_ebay_amazon, whose first statement reads the names
\* match_trading_cards_amazon / match_luxury_items_amazon; the module
\* defines neither, so the call ends in NameError before the three-way
\* join (lines 305-346) is reached.
ComparedAll(c, amazon_items) ==
    [c EXCEPT !.status = "raised", !.func = "compare_all_platforms",
              !.amazon_items = amazon_items,
              !.matches = <<>>,
              !.error = IF c.status = "raised" THEN c.error ELSE "NameError"]

\* The Amazon lists of a call: none, or one listing.
AmazonLists == {<<>>, <<[item_id |-> "B001", price |-> 100, shipping |-> 0]>>}

\* One call of compare_all_platforms; the Amazon list plays no part in
\* the outcome.
CompareAll ==
    /\ match.status = "idle"
    /\ \E item_type \in ItemTypes, amazon_items \in AmazonLists :
         \E ebay_items \in ItemLists(EbayListings(item_type)),
            fb_items \in ItemLists(FacebookListings(item_type)) :
           match' = ComparedAll(
                       Compared(item_type, ebay_items, fb_items,
                                PairOutcomes(ebay_items, fb_items, item_type)),
                       amazon_items)
    /\ UNCHANGED <<chain, call, quota, fan, arb, norm, fetch, web>>

\* compare_ebay_amazon 262-264: "matches = []", then the conditional
\* expression that reads match_trading_cards_amazon or
\* match_luxury_items_amazon, names the module never binds: NameError
\* before the first pair is looked at.
compare_ebay_amazon(item_type, ebay_items, amazon_items) ==
    [MatchIdle EXCEPT !.status = "raised", !.func = "compare_ebay_amazon",
                      !.item_type = item_type, !.ebay_items = ebay_items,
                      !.amazon_items = amazon_items, !.error = "NameError"]

\* One call of compare_ebay_amazon.
CompareAmazon ==
    /\ match.status = "idle"
    /\ \E item_type \in ItemTypes, amazon_items \in AmazonLists :
         \E ebay_items \in ItemLists(EbayListings(item_type)) :
           match' = compare_ebay_amazon(item_type, ebay_items, amazon_items)
    /\ UNCHANGED <<chain, call, quota, fan, arb, norm, fetch, web>>

\* reference_price arguments; 0 stands for None and 0, both falsy.
ReferencePrices == {0, 100, 300}

\* calculate_cross_platform_spread(ebay_item, fb_item, reference_price)
calculate_cross_platform_spread(e, f, reference_price) ==
    LET ebay_all_in == e.price + e.shipping
        fb_all_in == f.price + f.shipping
        ebay_spread == reference_price - ebay_all_in
        fb_spread == reference_price - fb_all_in
    IN [computed |-> TRUE,
        ebay_price |-> ebay_all_in,
        facebook_price |-> fb_all_in,
        price_difference |-> Abs(ebay_all_in - fb_all_in),
        cheaper_platform |-> IF fb_all_in < ebay_all_in THEN "Facebook"
                             ELSE "eBay",
        savings |-> Abs(ebay_all_in - fb_all_in),
        has_reference |-> reference_price # 0,
        best_spread |-> IF reference_price = 0 THEN 0
                        ELSE IF ebay_spread > fb_spread THEN ebay_spread
                        ELSE fb_spread,
        best_platform_for_arbitrage |->
            IF reference_price = 0 THEN ""
            ELSE IF ebay_spread > fb_spread THEN "eBay" ELSE "Facebook"]

\* The spread of one returned match against a reference price.
Spread ==
    /\ match.status = "returned"
    /\ \E i \in 1..Len(match.matches), reference_price \in ReferencePrices :
         match' = [match EXCEPT
                      !.status = "spread",
                      !.spread = calculate_cross_platform_spread(
                                     match.matches[i].ebay_item,
                                     match.matches[i].facebook_item,
                                     reference_price)]
    /\ UNCHANGED <<chain, call, quota, fan, arb, norm, fetch, web>>

\* The caller has the list, the spread, or the exception.
CompareDone ==
    /\ match.status \in {"returned", "raised", "spread"}
    /\ match' = MatchIdle
    /\ UNCHANGED <<chain, call, quota, fan, arb, norm, fetch, web>>

InitMatch ==
    /\ chain = Idle
    /\ call = Idle
    /\ quota = Idle
    /\ fan = Idle
    /\ match = MatchIdle
    /\ arb = Idle
    /\ norm = Idle
    /\ fetch = Idle
    /\ web = Idle

NextMatch == Compare \/ CompareAll \/ CompareAmazon \/ Spread \/ CompareDone

SpecMatch == InitMatch /\ [][NextMatch]_vars

SameCert(o) ==
    o.ebay_item.cert # "" /\ o.ebay_item.cert = o.facebook_item.cert

\* C9: whenever the two listings of a compared pair carry the same
\* non-empty certificate number, the pair is matched with a confidence of
\* exactly 1.0, and that match is in the list compare_ebay_facebook
\* returns.
C9_SameCertIsCertain ==
    \A k \in 1..Len(match.outcomes) :
        SameCert(match.outcomes[k]) =>
            /\ match.outcomes[k].out.emitted
            /\ match.outcomes[k].out.match_confidence = [num |-> 1, den |-> 1]
            /\ match.status \in {"returned", "spread"} =>
                  \E i \in 1..Len(match.matches) :
                      match.matches[i] = match.outcomes[k].out

\* A returned comparison holding a pair with one certificate number whose
\* titles and prices are far apart.
C9_Witness ==
    /\ match.status = "returned"
    /\ \E k \in 1..Len(match.outcomes) :
          LET o == match.outcomes[k]
          IN /\ SameCert(o)
             /\ o.ebay_item.title # o.facebook_item.title
             /\ PricesDiverge(o.ebay_item.price + o.ebay_item.shipping,
                              o.facebook_item.price + o.facebook_item.shipping)
             /\ ~RGeq(CardScore(o.ebay_item, o.facebook_item), CardThreshold)
             /\ o.out.emitted

\* C10: every match in the returned list has a confidence within [0, 1]
\* that is at least 0.6 for trading cards and 0.5 for luxury goods, and no
\* pair is emitted anywhere with less.
C10_ConfidenceWithinRange ==
    LET AtLeast(c, n, d) == c.num * d >= n * c.den
        Acceptable(c) ==
            /\ c.den > 0
            /\ AtLeast(c, 0, 1)
            /\ c.num <= c.den
            /\ IF match.item_type = "trading_cards" THEN AtLeast(c, 6, 10)
               ELSE AtLeast(c, 5, 10)
    IN /\ \A i \in 1..Len(match.matches) :
             Acceptable(match.matches[i].match_confidence)
       /\ \A k \in 1..Len(match.outcomes) :
             match.outcomes[k].out.emitted =>
                Acceptable(match.outcomes[k].out.match_confidence)

\* A returned luxury comparison that emitted a scored match below 1.0 and
\* dropped a same-brand pair whose score was under the threshold.
C10_Witness ==
    /\ match.status = "returned"
    /\ match.item_type = "luxury"
    /\ \E i \in 1..Len(match.matches) :
          RLess(match.matches[i].match_confidence, One)
    /\ \E k \in 1..Len(match.outcomes) :
          LET o == match.outcomes[k]
          IN /\ ~o.out.emitted
             /\ BrandsAgree(o.ebay_item, o.facebook_item)
             /\ RLess(LuxuryScore(o.ebay_item, o.facebook_item), LuxuryThreshold)

\* No brand metadata, and no known brand string in the title.
Unbranded(item) ==
    /\ item.brand \in {<<>>, PyNone}
    /\ \A i \in 1..Len(luxury_brands) :
          ~Contains(luxury_brands[i], Lower(item.title))

\* C11: in luxury matching, a listing without brand metadata whose title
\* holds no known brand is never part of an emitted match, whatever the
\* listing on the other side.
C11_UnbrandedNeverMatches ==
    match.item_type = "luxury" =>
        /\ \A k \in 1..Len(match.outcomes) :
              (Unbranded(match.outcomes[k].ebay_item)
                  \/ Unbranded(match.outcomes[k].facebook_item))
                 => ~match.outcomes[k].out.emitted
        /\ \A i \in 1..Len(match.matches) :
              /\ ~Unbranded(match.matches[i].ebay_item)
              /\ ~Unbranded(match.matches[i].facebook_item)

\* A returned luxury comparison that dropped an unbranded listing although
\* its counterpart has the same title and the score is over the threshold.
C11_Witness ==
    /\ match.status = "returned"
    /\ match.item_type = "luxury"
    /\ \E k \in 1..Len(match.outcomes) :
          LET o == match.outcomes[k]
          IN /\ Unbranded(o.ebay_item)
             /\ o.ebay_item.title = o.facebook_item.title
             /\ RGeq(LuxuryScore(o.ebay_item, o.facebook_item), LuxuryThreshold)
             /\ ~o.out.emitted

AllIn(item) == item.price + item.shipping

\* The all-in costs differ by more than 30% of the larger one.
DifferOver30(e, f) ==
    LET lo == IF AllIn(e) < AllIn(f) THEN AllIn(e) ELSE AllIn(f)
        hi == IF AllIn(e) < AllIn(f) THEN AllIn(f) ELSE AllIn(e)
    IN 10 * (hi - lo) > 3 * hi

\* The outcome is that of the halved score: emitted exactly when half the
\* score reaches 0.6, and then with half the score as confidence.
HalvedOutcome(o) ==
    LET half == RMul(CardScore(o.ebay_item, o.facebook_item), [num |-> 1, den |-> 2])
    IN /\ o.out.emitted <=> RGeq(half, [num |-> 6, den |-> 10])
       /\ o.out.emitted => o.out.match_confidence = half

\* C12 as stated: in trading-card matching, every pair whose all-in costs
\* differ by more than 30% of the larger one has its confidence halved
\* before the threshold test.
C12_DivergentPricesHalved ==
    match.item_type = "trading_cards" =>
        \A k \in 1..Len(match.outcomes) :
            DifferOver30(match.outcomes[k].ebay_item,
                         match.outcomes[k].facebook_item)
               => HalvedOutcome(match.outcomes[k])

\* C12 amended: the halving applies to pairs scored by title and keywords
\* (no identical certificate number) whose all-in costs are both positive.
C12_PositiveDivergentPricesHalved ==
    match.item_type = "trading_cards" =>
        \A k \in 1..Len(match.outcomes) :
            LET o == match.outcomes[k]
            IN (/\ ~SameCert(o)
                /\ AllIn(o.ebay_item) > 0
                /\ AllIn(o.facebook_item) > 0
                /\ DifferOver30(o.ebay_item, o.facebook_item))
               => HalvedOutcome(o)

\* A returned card comparison with a pair whose score alone passes the
\* threshold, whose positive prices diverge, and which was dropped.
C12_Witness ==
    /\ match.status = "returned"
    /\ match.item_type = "trading_cards"
    /\ \E k \in 1..Len(match.outcomes) :
          LET o == match.outcomes[k]
          IN /\ ~SameCert(o)
             /\ AllIn(o.ebay_item) > 0
             /\ AllIn(o.facebook_item) > 0
             /\ DifferOver30(o.ebay_item, o.facebook_item)
             /\ RGeq(CardScore(o.ebay_item, o.facebook_item), CardThreshold)
             /\ ~o.out.emitted

\* The luxury score as the rule states it: 0.2 more for equal sizes, 0.1
\* less when exactly one side has a size, 0.1 more when "new" agrees.
StatedLuxuryScore(e, f) ==
    LET both == SizeOf(e) # <<>> /\ SizeOf(f) # <<>>
        one == (SizeOf(e) # <<>>) # (SizeOf(f) # <<>>)
    IN RAdd(RAdd(RAdd(RMul(similarity_score(e.title, f.title),
                           [num |-> 4, den |-> 10]),
                      RMul(KeywordOverlap(extract_keywords(e.title),
                                          extract_keywords(f.title)),
                           [num |-> 3, den |-> 10])),
                 IF both /\ SizeOf(e) = SizeOf(f) THEN [num |-> 2, den |-> 10]
                 ELSE IF one THEN [num |-> 0 - 1, den |-> 10]
                 ELSE [num |-> 0, den |-> 1]),
            IF IsNew(e) = IsNew(f) THEN [num |-> 1, den |-> 10]
            ELSE [num |-> 0, den |-> 1])

\* The pair passed the brand test and no field was None.
Scored(o) ==
    /\ ~(~o.out.emitted /\ o.out.raised)
    /\ BrandsAgree(o.ebay_item, o.facebook_item)

\* C13: the confidence of a scored luxury pair is title similarity x 0.4 +
\* keyword overlap x 0.3, plus 0.2 for equal sizes, minus 0.1 when exactly
\* one side has a size, plus 0.1 when "new" agrees, and nothing else.
C13_LuxuryFormula ==
    match.item_type = "luxury" =>
        \A k \in 1..Len(match.outcomes) :
            LET o == match.outcomes[k]
                stated == StatedLuxuryScore(o.ebay_item, o.facebook_item)
            IN Scored(o) =>
                 /\ o.out.emitted <=> RGeq(stated, [num |-> 5, den |-> 10])
                 /\ o.out.emitted => o.out.match_confidence = stated

\* The platform with the lowest all-in cost, eBay before Facebook on a tie.
Cheapest(ebay_all_in, fb_all_in) ==
    IF fb_all_in < ebay_all_in THEN "Facebook" ELSE "eBay"

\* C14: every cheapest-platform answer names the platform whose price +
\* shipping is the minimum of the joined listings, and on a tie the one
\* earlier in the order eBay, Facebook, Amazon: the best_platform of each
\* match, and the cheaper_platform and best_platform_for_arbitrage of a
\* spread.
C14_CheapestPlatform ==
    /\ \A i \in 1..Len(match.matches) :
          match.matches[i].best_platform =
              Cheapest(AllIn(match.matches[i].ebay_item),
                       AllIn(match.matches[i].facebook_item))
    /\ match.spread.computed =>
          /\ match.spread.cheaper_platform =
                Cheapest(match.spread.ebay_price, match.spread.facebook_price)
          /\ match.spread.has_reference =>
                match.spread.best_platform_for_arbitrage =
                    Cheapest(match.spread.ebay_price,
                             match.spread.facebook_price)

(***************************************************************************)
(* ARBITRAGE CALCULATOR: analyze_arbitrage_opportunities                   *)
(* (lib/research_agent.py), analyze_watch_arbitrage                        *)
(* (scanners/watch_scanner.py), analyze_luxury_arbitrage                   *)
(* (scanners/luxury_scanner.py) and the search loop of                     *)
(* psa_card_arbitrage.py.  Money is counted in cents, rates and            *)
(* percentages are fractions.                                              *)
(***************************************************************************)

\* round(x, 2) of a dollar amount n/d cents: to the nearest cent, a half
\* going to the even cent.
Round(n, d) ==
    IF 2 * (n % d) < d THEN n \div d
    ELSE IF 2 * (n % d) > d THEN (n \div d) + 1
    ELSE IF (n \div d) % 2 = 0 THEN n \div d ELSE (n \div d) + 1

\* A tax computed on the cents of the price only.
TaxOnFraction(tax_rate, price) ==
    Round(tax_rate.num * (price % 100), tax_rate.den)

\* est_tax = round(tax_rate * price, 2)
est_tax(tax_rate, price) == Round(tax_rate.num * price, tax_rate.den)

\* An all-in cost that leaves the shipping out.
CostWithoutShipping(price, shipping, tax) == price + tax

\* all_in_cost = price + shipping + est_tax
all_in_cost(price, shipping, tax) == price + shipping + tax

NonePct == [kind |-> "none", v |-> Zero]
ValPct(x) == [kind |-> "value", v |-> x]
ZeroDivisionError == [kind |-> "raise", v |-> Zero]

\* spread / reference * 100
Percent(spread, reference) ==
    IF reference = 0 THEN ZeroDivisionError
    ELSE IF reference < 0
    THEN ValPct(Rat(0 - (spread * 100), 0 - reference))
    ELSE ValPct(Rat(spread * 100, reference))

\* round(spread / reference * 100, 2)
RoundedPercent(spread, reference) ==
    IF reference = 0 THEN ZeroDivisionError
    ELSE IF reference < 0
    THEN ValPct(Rat(Round(0 - (spread * 10000), 0 - reference), 100))
    ELSE ValPct(Rat(Round(spread * 10000, reference), 100))

\* (spread / reference * 100) if reference > 0 else 0
GuardedPercent(spread, reference) ==
    IF reference > 0 THEN Percent(spread, reference) ELSE ValPct(Zero)

NoOpportunity ==
    [spread |-> NoneR, spread_pct |-> NonePct, is_arbitrage |-> FALSE]

\* research_agent.py 771-779: "if psa_estimate:" computes the spread, the
\* else branch leaves spread and spread_pct None.
analyze_arbitrage_opportunities(cost, psa_estimate) ==
    IF Truthy(psa_estimate)
    THEN [spread |-> ValR(psa_estimate.v - cost),
          spread_pct |-> GuardedPercent(psa_estimate.v - cost, psa_estimate.v),
          is_arbitrage |-> psa_estimate.v - cost > 0]
    ELSE NoOpportunity

\* watch_scanner.py 204-212: as above, and the spread percentage must
\* reach min_spread_pct.
analyze_watch_arbitrage(cost, reference_price, min_spread_pct) ==
    IF Truthy(reference_price)
    THEN [spread |-> ValR(reference_price.v - cost),
          spread_pct |-> GuardedPercent(reference_price.v - cost, reference_price.v),
          is_arbitrage |->
              /\ reference_price.v - cost > 0
              /\ RGeq(GuardedPercent(reference_price.v - cost, reference_price.v).v,
                      min_spread_pct)]
    ELSE NoOpportunity

\* luxury_scanner.py 409-421: condition_str = item.get("condition", "")
\* or ""; "new" or "nwt" in the condition or in the title.
is_new(item) ==
    \/ Contains(<<"n", "e", "w">>,
                Lower(IF item.condition = PyNone THEN <<>> ELSE item.condition))
    \/ Contains(<<"n", "w", "t">>,
                Lower(IF item.condition = PyNone THEN <<>> ELSE item.condition))
    \/ Contains(<<"n", "e", "w">>, Lower(item.title))
    \/ Contains(<<"n", "w", "t">>, Lower(item.title))

\* A luxury analyzer that flags used items as well.
AnyCondition(item) == TRUE

\* luxury_scanner.py 436: "is_arbitrage": is_arbitrage and is_new.
OnlyIfNew(item) == is_new(item)

\* luxury_scanner.py 401-439.
analyze_luxury_arbitrage(cost, retail_price, item) ==
    IF Truthy(retail_price)
    THEN [spread |-> ValR(retail_price.v - cost),
          spread_pct |-> GuardedPercent(retail_price.v - cost, retail_price.v),
          is_arbitrage |-> retail_price.v - cost > 0 /\ OnlyIfNew(item)]
    ELSE NoOpportunity

\* psa_card_arbitrage.py 136-167: spread, spread_pct and is_undervalued
\* keep their initial None, None, False unless "psa_estimate and
\* psa_estimate > 0"; both figures are rounded to two places.
search(cost, psa_estimate) ==
    IF Truthy(psa_estimate) /\ psa_estimate.v > 0
    THEN [spread |-> ValR(psa_estimate.v - cost),
          spread_pct |->
              IF psa_estimate.v > 0
              THEN RoundedPercent(psa_estimate.v - cost, psa_estimate.v)
              ELSE ValPct(Zero),
          is_arbitrage |-> psa_estimate.v - cost > 0]
    ELSE NoOpportunity

\* Listing prices and shipping costs, in cents.
ListingPrices == {0, 50, 99, 100, 50000}
ShippingCosts == {0, 599}

\* tax_rate: every caller passes 0.09; 0 is a sale without tax.
TaxRates == {Rat(0, 1), Rat(9, 100)}

\* What the Price Resolution Chain can hand over, in cents: None, zero,
\* a negative figure, and positive figures.
ReferenceValues == {NoneR, ValR(0), ValR(0 - 500), ValR(100), ValR(65000)}

\* min_spread_pct: the default 10.0 and a stricter 20.0.
MinSpreadPcts == {Rat(10, 1), Rat(20, 1)}

\* Title and condition of the analysed item.
ArbItems ==
    {[title |-> <<"G", "u", "c", "c", "i", " ", "l", "o", "a", "f", "e", "r", "s">>,
      condition |-> <<"N", "e", "w">>],
     [title |-> <<"G", "u", "c", "c", "i", " ", "l", "o", "a", "f", "e", "r", "s">>,
      condition |-> <<"P", "r", "e", "-", "o", "w", "n", "e", "d">>],
     [title |-> <<"P", "r", "a", "d", "a", " ", "b", "a", "g", " ", "N", "W", "T">>,
      condition |-> PyNone],
     [title |-> <<"P", "r", "a", "d", "a", " ", "b", "a", "g">>,
      condition |-> PyNone]}

ArbFuncs ==
    {"analyze_arbitrage_opportunities", "analyze_watch_arbitrage",
     "analyze_luxury_arbitrage", "search"}

Opportunity(func, item, price, shipping, tax_rate, reference, min_pct, r) ==
    [status |-> "analyzed", func |-> func, item |-> item, price |-> price,
     shipping |-> shipping, tax_rate |-> tax_rate, reference |-> reference,
     min_spread_pct |-> min_pct,
     est_tax |-> est_tax(tax_rate, price),
     all_in_cost |-> all_in_cost(price, shipping, est_tax(tax_rate, price)),
     spread |-> r.spread, spread_pct |-> r.spread_pct,
     is_arbitrage |-> r.is_arbitrage,
     error |-> IF r.spread_pct.kind = "raise" THEN "ZeroDivisionError" ELSE ""]

DefaultItem == CHOOSE item \in ArbItems : item.condition = <<"N", "e", "w">>
DefaultMinPct == Rat(10, 1)

AnalyzeCard ==
    /\ arb.status = "idle"
    /\ \E price \in ListingPrices, shipping \in ShippingCosts,
          tax_rate \in TaxRates, reference \in ReferenceValues :
         arb' = Opportunity("analyze_arbitrage_opportunities", DefaultItem,
                    price, shipping, tax_rate, reference, DefaultMinPct,
                    analyze_arbitrage_opportunities(
                        all_in_cost(price, shipping, est_tax(tax_rate, price)),
                        reference))
    /\ UNCHANGED <<chain, call, quota, fan, match, norm, fetch, web>>

AnalyzeWatch ==
    /\ arb.status = "idle"
    /\ \E price \in ListingPrices, shipping \in ShippingCosts,
          tax_rate \in TaxRates, reference \in ReferenceValues,
          min_pct \in MinSpreadPcts :
         arb' = Opportunity("analyze_watch_arbitrage", DefaultItem,
                    price, shipping, tax_rate, reference, min_pct,
                    analyze_watch_arbitrage(
                        all_in_cost(price, shipping, est_tax(tax_rate, price)),
                        reference, min_pct))
    /\ UNCHANGED <<chain, call, quota, fan, match, norm, fetch, web>>

AnalyzeLuxury ==
    /\ arb.status = "idle"
    /\ \E price \in ListingPrices, shipping \in ShippingCosts,
          tax_rate \in TaxRates, reference \in ReferenceValues,
          item \in ArbItems :
         arb' = Opportunity("analyze_luxury_arbitrage", item,
                    price, shipping, tax_rate, reference, DefaultMinPct,
                    analyze_luxury_arbitrage(
                        all_in_cost(price, shipping, est_tax(tax_rate, price)),
                        reference, item))
    /\ UNCHANGED <<chain, call, quota, fan, match, norm, fetch, web>>

SearchPsa ==
    /\ arb.status = "idle"
    /\ \E price \in ListingPrices, shipping \in ShippingCosts,
          reference \in ReferenceValues :
         arb' = Opportunity("search", DefaultItem,
                    price, shipping, Rat(9, 100), reference, DefaultMinPct,
                    search(all_in_cost(price, shipping,
                                       est_tax(Rat(9, 100), price)),
                           reference))
    /\ UNCHANGED <<chain, call, quota, fan, match, norm, fetch, web>>

ArbIdle == [status |-> "idle"]

ArbDone ==
    /\ arb.status = "analyzed"
    /\ arb' = ArbIdle
    /\ UNCHANGED <<chain, call, quota, fan, match, norm, fetch, web>>

InitArb ==
    /\ chain = Idle
    /\ call = Idle
    /\ quota = Idle
    /\ fan = Idle
    /\ match = Idle
    /\ arb = ArbIdle
    /\ norm = Idle
    /\ fetch = Idle
    /\ web = Idle

NextArb ==
    AnalyzeCard \/ AnalyzeWatch \/ AnalyzeLuxury \/ SearchPsa \/ ArbDone

SpecArb == InitArb /\ [][NextArb]_vars

Analyzed == arb.status = "analyzed"

\* C16: the spread percentage is 0 for every reference price <= 0, and no
\* input makes the calculator divide by zero.
C16_ZeroPctWithoutPositiveReference ==
    Analyzed =>
        /\ arb.error # "ZeroDivisionError"
        /\ (arb.reference.kind = "value" /\ arb.reference.v <= 0) =>
               arb.spread_pct = ValPct(Zero)

\* The worked example: price 500.00, shipping 5.99, tax rate 0.09 and
\* reference price 650.00.
Scenario ==
    /\ Analyzed
    /\ arb.price = 50000
    /\ arb.shipping = 599
    /\ arb.tax_rate = Rat(9, 100)
    /\ arb.reference = ValR(65000)

\* A percentage that reads hundredths / 100 when shown with two places.
ShownAs(pct, hundredths) ==
    pct.kind = "value" /\ Round(pct.v.num * 100, pct.v.den) = hundredths

\* C17: the worked example yields all-in cost 550.94, spread 99.06,
\* spread percentage about 15.24 and an arbitrage flag.
C17_Example ==
    Scenario =>
        /\ arb.all_in_cost = 55094
        /\ arb.spread = ValR(9906)
        /\ ShownAs(arb.spread_pct, 1524)
        /\ arb.func = "analyze_arbitrage_opportunities" => arb.is_arbitrage

\* C17 amended: the worked example yields all-in cost 550.99, spread
\* 99.01, spread percentage about 15.23 and an arbitrage flag.
C17_ExampleRecomputed ==
    Scenario =>
        /\ arb.est_tax = 4500
        /\ arb.all_in_cost = 55099
        /\ arb.spread = ValR(9901)
        /\ ShownAs(arb.spread_pct, 1523)
        /\ arb.func = "analyze_arbitrage_opportunities" => arb.is_arbitrage

\* The card analyzer has computed the worked example.
C17_Witness ==
    /\ Scenario
    /\ arb.func = "analyze_arbitrage_opportunities"
    /\ arb.is_arbitrage

\* The spread is positive and, in the watch analyzer, the spread
\* percentage reaches the configured minimum.
SpreadQualifies ==
    /\ arb.spread.kind = "value"
    /\ arb.spread.v > 0
    /\ arb.func = "analyze_watch_arbitrage" =>
           RGeq(arb.spread_pct.v, arb.min_spread_pct)

\* C18: the arbitrage flag is set exactly when the spread is positive and
\* the configured minimum spread percentage, if any, is reached; nothing
\* else affects it.
C18_FlagIffSpreadQualifies ==
    Analyzed => (arb.is_arbitrage <=> SpreadQualifies)

\* C18 amended: the arbitrage flag is set exactly when the spread is
\* positive, the configured minimum spread percentage, if any, is
\* reached, and, in the luxury analyzer, the item is new.
C18_FlagIffSpreadQualifiesAndNew ==
    Analyzed =>
        (arb.is_arbitrage <=>
            /\ SpreadQualifies
            /\ arb.func = "analyze_luxury_arbitrage" => is_new(arb.item))

\* The luxury analyzer left a used item with a positive spread unflagged.
C18_Witness ==
    /\ Analyzed
    /\ arb.func = "analyze_luxury_arbitrage"
    /\ SpreadQualifies
    /\ ~is_new(arb.item)
    /\ ~arb.is_arbitrage

\* C19: for the same shipping and tax rate, every higher price has an
\* all-in cost at least as high.
C19_CostMonotoneInPrice ==
    Analyzed =>
        \A price \in ListingPrices :
            price > arb.price =>
                all_in_cost(price, arb.shipping,
                            est_tax(arb.tax_rate, price)) >= arb.all_in_cost

\* A 99-cent listing taxed at 9% was costed (tax rounds up to 9 cents)
\* while a one-dollar listing exists to compare it with.
C19_Witness ==
    /\ Analyzed
    /\ arb.price = 99
    /\ arb.tax_rate = Rat(9, 100)
    /\ arb.est_tax = 9
    /\ \E price \in ListingPrices : price > arb.price

(***************************************************************************)
(* CANONICAL RECORD NORMALIZER: the item loop of search_ebay_generic       *)
(* (lib/ebay_api.py), normalize_facebook_item                              *)
(* (lib/facebook_marketplace_api.py), normalize_amazon_item                *)
(* (lib/amazon_api.py) and extract_cert_from_item (psa_card_arbitrage.py). *)
(* Of a listing the model keeps the title, the price, the currency and the *)
(* certificate number.                                                     *)
(***************************************************************************)

\* The digit counts of the certificate patterns: \d{6,9} in the eBay
\* code, \d{6,8} in the Facebook and Amazon normalizers, \d{4,9} after
\* "S#".
CertMinDigits == 6
CertMaxDigits == 9
MarketplaceCertMaxDigits == 8
SerialMinDigits == 4

Whitespace == {" "}

RECURSIVE SkipClass(_, _, _)
SkipClass(s, q, class) ==
    IF q <= Len(s) /\ s[q] \in class THEN SkipClass(s, q + 1, class) ELSE q

\* "#?\s*" from q on.
SkipHashAt(s, q) ==
    IF q <= Len(s) /\ s[q] = "#" THEN SkipClass(s, q + 1, Whitespace) ELSE q

\* "\s*#?\s*" from q on.
SkipHash(s, q) == SkipHashAt(s, SkipClass(s, q, Whitespace))

\* The group (\d{lo,hi}) for a run of digits s[q..r-1]: the run cut to hi
\* digits, or no match when it is shorter than lo.
TakeDigits(s, q, r, lo, hi) ==
    IF r - q < lo THEN <<>>
    ELSE IF r - q > hi THEN SubSeq(s, q, q + hi - 1)
    ELSE SubSeq(s, q, r - 1)

DigitGroup(s, q, lo, hi) == TakeDigits(s, q, DigitsEnd(s, q), lo, hi)

\* str.strip()
RECURSIVE Strip(_)
Strip(s) ==
    IF s # <<>> /\ Head(s) = " " THEN Strip(Tail(s))
    ELSE IF s # <<>> /\ s[Len(s)] = " " THEN Strip(SubSeq(s, 1, Len(s) - 1))
    ELSE s

\* re.match(r'^\d{6,9}$', v)
IsCertToken(v) ==
    /\ Len(v) >= CertMinDigits
    /\ Len(v) <= CertMaxDigits
    /\ \A i \in 1..Len(v) : IsDigit(v[i])

\* The value of a string field that may be None, stripped.
Stripped(v) == IF v = PyNone THEN <<>> ELSE Strip(v)

\* search_ebay_generic 434-436: the value of an aspect named cert,
\* certification or psa becomes the cert when it is 6 to 9 digits.
EbayCert(aspect) ==
    IF IsCertToken(Stripped(aspect)) THEN Stripped(aspect) ELSE PyNone

\* cert_pattern = r'(?:cert|certification|psa)[\s#:]*(\d{6,8})'
FacebookKeywords ==
    <<<<"c", "e", "r", "t">>, <<"c", "e", "r", "t", "i", "f", "i", "c", "a", "t", "i", "o", "n">>, <<"p", "s", "a">>>>
FacebookSeparators == {" ", "#", ":"}

\* group(1) of a match that starts at p with keyword k or a later one.
RECURSIVE FacebookCertAt(_, _, _)
FacebookCertAt(s, p, k) ==
    IF k > Len(FacebookKeywords) THEN <<>>
    ELSE IF /\ StartsAt(FacebookKeywords[k], s, p)
            /\ DigitGroup(s, SkipClass(s, p + Len(FacebookKeywords[k]),
                                       FacebookSeparators),
                          CertMinDigits, MarketplaceCertMaxDigits) # <<>>
    THEN DigitGroup(s, SkipClass(s, p + Len(FacebookKeywords[k]),
                                 FacebookSeparators),
                    CertMinDigits, MarketplaceCertMaxDigits)
    ELSE FacebookCertAt(s, p, k + 1)

\* re.search: the leftmost match.
RECURSIVE SearchFacebookCert(_, _)
SearchFacebookCert(s, p) ==
    IF p > Len(s) THEN PyNone
    ELSE IF FacebookCertAt(s, p, 1) # <<>> THEN FacebookCertAt(s, p, 1)
    ELSE SearchFacebookCert(s, p + 1)

\* normalize_facebook_item 176-180, on (title + " " + description).lower().
FacebookCert(title, description) ==
    SearchFacebookCert(Lower(title \o <<" ">> \o description), 1)

\* cert_pattern = r'\b(?:psa|cert)[\s#:]*(\d{6,8})\b': the keyword starts
\* a word and the digits end one, so a longer run of digits does not match.
AmazonKeywords == <<<<"p", "s", "a">>, <<"c", "e", "r", "t">>>>

AmazonGroup(s, q, r) ==
    IF /\ r - q >= CertMinDigits
       /\ r - q <= MarketplaceCertMaxDigits
       /\ (r > Len(s) \/ ~WordChar(s[r]))
    THEN SubSeq(s, q, r - 1)
    ELSE <<>>

AmazonDigits(s, q) == AmazonGroup(s, q, DigitsEnd(s, q))

RECURSIVE AmazonCertAt(_, _, _)
AmazonCertAt(s, p, k) ==
    IF k > Len(AmazonKeywords) \/ (p > 1 /\ WordChar(s[p - 1])) THEN <<>>
    ELSE IF /\ StartsAt(AmazonKeywords[k], s, p)
            /\ AmazonDigits(s, SkipClass(s, p + Len(AmazonKeywords[k]),
                                         FacebookSeparators)) # <<>>
    THEN AmazonDigits(s, SkipClass(s, p + Len(AmazonKeywords[k]),
                                   FacebookSeparators))
    ELSE AmazonCertAt(s, p, k + 1)

RECURSIVE SearchAmazonCert(_, _)
SearchAmazonCert(s, p) ==
    IF p > Len(s) THEN PyNone
    ELSE IF AmazonCertAt(s, p, 1) # <<>> THEN AmazonCertAt(s, p, 1)
    ELSE SearchAmazonCert(s, p + 1)

\* normalize_amazon_item 217-221.
AmazonCert(title, description) ==
    SearchAmazonCert(Lower(title) \o <<" ">> \o Lower(description), 1)

\* extract_cert_from_item, method 3: the title patterns in their order,
\* matched with re.IGNORECASE.  sep is what may stand between the keyword
\* and the digits: "hash" for \s*#?\s*, "spaces" for \s+, "none".
TitlePatterns ==
    <<[kw |-> <<"p", "s", "a">>, sep |-> "hash", lo |-> CertMinDigits],
      [kw |-> <<"c", "e", "r", "t">>, sep |-> "hash", lo |-> CertMinDigits],
      [kw |-> <<"c", "e", "r", "t", "i", "f", "i", "c", "a", "t", "i", "o", "n">>, sep |-> "hash", lo |-> CertMinDigits],
      [kw |-> <<"p", "s", "a">>, sep |-> "spaces", lo |-> CertMinDigits],
      [kw |-> <<"s", "#">>, sep |-> "none", lo |-> SerialMinDigits],
      [kw |-> <<"s", "e", "r", "i", "a", "l">>, sep |-> "hash", lo |-> CertMinDigits]>>

\* Where the digits start after the keyword that ends before q, or 0.
AfterSeparator(s, q, sep) ==
    CASE sep = "hash" -> SkipHash(s, q)
      [] sep = "spaces" ->
           IF SkipClass(s, q, Whitespace) > q
           THEN SkipClass(s, q, Whitespace) ELSE 0
      [] sep = "none" -> q

PatternAt(s, p, pat) ==
    IF StartsAt(pat.kw, s, p) /\ AfterSeparator(s, p + Len(pat.kw), pat.sep) > 0
    THEN DigitGroup(s, AfterSeparator(s, p + Len(pat.kw), pat.sep),
                    pat.lo, CertMaxDigits)
    ELSE <<>>

RECURSIVE SearchPattern(_, _, _)
SearchPattern(s, p, pat) ==
    IF p > Len(s) THEN <<>>
    ELSE IF PatternAt(s, p, pat) # <<>> THEN PatternAt(s, p, pat)
    ELSE SearchPattern(s, p + 1, pat)

\* "for pattern in patterns": the first pattern whose match is 6 to 9
\* digits decides.
RECURSIVE TitleCert(_, _)
TitleCert(s, k) ==
    IF k > Len(TitlePatterns) THEN PyNone
    ELSE IF IsCertToken(SearchPattern(s, 1, TitlePatterns[k]))
    THEN SearchPattern(s, 1, TitlePatterns[k])
    ELSE TitleCert(s, k + 1)

\* extract_cert_from_item: the cert field, then the aspects, then the title.
extract_cert_from_item(item) ==
    IF item.cert # PyNone /\ item.cert # <<>> /\ IsCertToken(Strip(item.cert))
    THEN Strip(item.cert)
    ELSE IF IsCertToken(Stripped(item.aspect))
    THEN Stripped(item.aspect)
    ELSE TitleCert(Lower(item.title), 1)

\* What the upstream sends for one result.
RawTitles ==
    {<<"C", "h", "a", "r", "i", "z", "a", "r", "d", " ", "P", "S", "A", " ", "1", "0">>,
     <<"C", "h", "a", "r", "i", "z", "a", "r", "d", " ", "P", "S", "A", " ", "1", "0", " ", "c", "e", "r", "t", " ", "1", "2", "3", "4", "5", "6", "7", "8">>,
     <<"P", "i", "k", "a", "c", "h", "u", " ", "P", "S", "A", " ", "9", " ", "C", "e", "r", "t", " ", "#", "1", "2", "3", "4", "5", "6", "7", "8", "9">>,
     <<"P", "i", "k", "a", "c", "h", "u", " ", "c", "e", "r", "t", ":", " ", "1", "2", "3", "4", "5", "6">>,
     <<"P", "S", "A", " ", "1", "2", "3", "4", "5", "6", "7", "8", "9", "0", " ", "C", "h", "a", "r", "i", "z", "a", "r", "d">>,
     <<"M", "e", "w", " ", "S", "#", "4", "3", "7", "6", "1", " ", "P", "S", "A", " ", "1", "0">>}

\* The value of the result's certification aspect, None when it has none.
RawAspects ==
    {PyNone, <<"1", "2", "3", "4", "5", "6", "7", "8">>, <<" ", "1", "2", "3", "4", "5", "6", "7", " ">>, <<"1", "2", "3", "4", "5", "6">>, <<"1", "2", "3", "4", "5", "6", "7", "8", "9", "0">>}

Currencies == {"USD", "CAD", ""}
Amounts == {0, 100}

RawResults ==
    [title : RawTitles, aspect : RawAspects, currency : Currencies,
     amount : Amounts]

Dropped == [kept |-> FALSE, title |-> <<>>, price |-> 0, currency |-> "",
            cert |-> PyNone]

Item(title, price, currency, cert) ==
    [kept |-> TRUE, title |-> title, price |-> price, currency |-> currency,
     cert |-> cert]

\* search_ebay_generic 385-489: a result whose currency is
\* not "USD" is skipped.
ebay_item(raw) ==
    IF raw.currency # "USD" THEN Dropped
    ELSE Item(raw.title, raw.amount, raw.currency, EbayCert(raw.aspect))

\* normalize_facebook_item 83-101 and 203-223: currency = "USD" whatever
\* listing_price says; the item is kept when it has a title.
normalize_facebook_item(raw) ==
    Item(raw.title, raw.amount, "USD", FacebookCert(raw.title, <<>>))

\* normalize_amazon_item 73-96: currency = item_data.get("currency",
\* "USD") or "USD".
normalize_amazon_item(raw) ==
    Item(raw.title, raw.amount,
         IF raw.currency = "" THEN "USD" ELSE raw.currency,
         AmazonCert(raw.title, <<>>))

Normalized(func, raw, item) ==
    [status |-> "normalized", func |-> func, raw |-> raw, item |-> item]

NormalizeEbay ==
    /\ norm.status = "idle"
    /\ \E raw \in RawResults :
         norm' = Normalized("search_ebay_generic", raw, ebay_item(raw))
    /\ UNCHANGED <<chain, call, quota, fan, match, arb, fetch, web>>

NormalizeFacebook ==
    /\ norm.status = "idle"
    /\ \E raw \in RawResults :
         norm' = Normalized("normalize_facebook_item", raw,
                            normalize_facebook_item(raw))
    /\ UNCHANGED <<chain, call, quota, fan, match, arb, fetch, web>>

NormalizeAmazon ==
    /\ norm.status = "idle"
    /\ \E raw \in RawResults :
         norm' = Normalized("normalize_amazon_item", raw,
                            normalize_amazon_item(raw))
    /\ UNCHANGED <<chain, call, quota, fan, match, arb, fetch, web>>

\* psa_card_arbitrage.py: extract_cert_from_item on an item that
\* search_ebay_generic returned.
ExtractCert ==
    /\ norm.status = "idle"
    /\ \E raw \in RawResults :
         /\ ebay_item(raw).kept
         /\ norm' = Normalized("extract_cert_from_item", raw,
                       [ebay_item(raw) EXCEPT
                          !.cert = extract_cert_from_item(
                                     [cert |-> ebay_item(raw).cert,
                                      aspect |-> raw.aspect,
                                      title |-> raw.title])])
    /\ UNCHANGED <<chain, call, quota, fan, match, arb, fetch, web>>

NormDone ==
    /\ norm.status = "normalized"
    /\ norm' = Idle
    /\ UNCHANGED <<chain, call, quota, fan, match, arb, fetch, web>>

InitNorm ==
    /\ chain = Idle
    /\ call = Idle
    /\ quota = Idle
    /\ fan = Idle
    /\ match = Idle
    /\ arb = Idle
    /\ norm = Idle
    /\ fetch = Idle
    /\ web = Idle

NextNorm ==
    NormalizeEbay \/ NormalizeFacebook \/ NormalizeAmazon \/ ExtractCert
      \/ NormDone

SpecNorm == InitNorm /\ [][NextNorm]_vars

\* A run of digits of s that has no digit before or after it.
DigitTokens(s) ==
    {SubSeq(s, i, j - 1) : <<i, j>> \in
        {<<i, j>> \in (1..Len(s)) \X (2..(Len(s) + 1)) :
            /\ i < j
            /\ \A k \in i..(j - 1) : IsDigit(s[k])
            /\ (i = 1 \/ ~IsDigit(s[i - 1]))
            /\ (j > Len(s) \/ ~IsDigit(s[j]))}}

\* C25: the cert of a normalized listing is None or a numeric token of 7
\* to 9 digits that stands, as a whole token, in the title or in the
\* certification aspect.
C25_CertIsSevenToNineDigits ==
    (norm.status = "normalized" /\ norm.item.kept /\ norm.item.cert # PyNone)
    => /\ Len(norm.item.cert) >= 7
       /\ Len(norm.item.cert) <= 9
       /\ norm.item.cert \in
            DigitTokens(norm.raw.title) \cup DigitTokens(Stripped(norm.raw.aspect))

\* C26: a listing that a Source Adapter kept is priced in USD: the
\* upstream result carried the currency USD, and so does the listing.
C26_OnlyUsd ==
    (norm.status = "normalized" /\ norm.item.kept)
    => (norm.raw.currency = "USD" /\ norm.item.currency = "USD")

\* C27: a call of compare_ebay_amazon or compare_all_platforms on lists
\* whose pairs the matchers accept, the empty Amazon list included, ends
\* with a list and not with an exception.
C27_CompareReturnsList ==
    (/\ match.func \in {"compare_ebay_amazon", "compare_all_platforms"}
     /\ match.error # "AttributeError")
    => match.status # "raised"

(***************************************************************************)
(* ITEM LISTS ACROSS RETRIES: the retry loops of search_ebay_generic and   *)
(* search_facebook_marketplace with the list they fill.  "items" (and the  *)
(* eBay "seen_ids") are created before the loop and live through every     *)
(* attempt.  A listing is its upstream id; price_ok says whether           *)
(* float(price) succeeds on it.                                            *)
(***************************************************************************)

UpstreamListings ==
    {[item_id |-> "a", price_ok |-> TRUE],
     [item_id |-> "b", price_ok |-> TRUE],
     [item_id |-> "c", price_ok |-> FALSE]}

\* The longest page the upstream sends.
MaxPage == 2

\* One response: at most MaxPage listings, no listing twice.
Pages ==
    {p \in UNION {[1..n -> UpstreamListings] : n \in 0..MaxPage} :
        \A i, j \in 1..Len(p) : p[i] = p[j] => i = j}

FetchAdapters == {"ebay", "facebook"}

FetchMaxRetries(adapter) ==
    IF adapter = "ebay" THEN EbayMaxRetries ELSE FacebookMaxRetries

FetchStarted(adapter) ==
    [status |-> "running", adapter |-> adapter, attempt |-> 0,
     items |-> <<>>, seen_ids |-> {}]

\* A call of the adapter begins: items = [], seen_ids = set().
FetchStart ==
    /\ fetch.status = "idle"
    /\ \E adapter \in FetchAdapters : fetch' = FetchStarted(adapter)
    /\ UNCHANGED <<chain, call, quota, fan, match, arb, norm, web>>

\* The except clauses: "if attempt < max_retries - 1: continue", else
\* raise.
AfterFailure(f) ==
    IF f.attempt < FetchMaxRetries(f.adapter) - 1
    THEN [f EXCEPT !.attempt = @ + 1]
    ELSE [f EXCEPT !.status = "raised"]

\* ebay_api.py 385-489: the loop over itemSummaries from entry k on.  An
\* id is put into seen_ids before the price is parsed, so a listing whose
\* price raises is in seen_ids and not in items.
RECURSIVE EbayLoop(_, _, _, _)
EbayLoop(page, k, items, seen_ids) ==
    IF k > Len(page)
    THEN [items |-> items, seen_ids |-> seen_ids, raised |-> FALSE]
    ELSE IF page[k].item_id = "" \/ page[k].item_id \in seen_ids
    THEN EbayLoop(page, k + 1, items, seen_ids)
    ELSE IF ~page[k].price_ok
    THEN [items |-> items, seen_ids |-> seen_ids \cup {page[k].item_id},
          raised |-> TRUE]
    ELSE EbayLoop(page, k + 1, Append(items, page[k].item_id),
                  seen_ids \cup {page[k].item_id})

EbayProcessed(f, r) ==
    IF r.raised
    THEN AfterFailure([f EXCEPT !.items = r.items, !.seen_ids = r.seen_ids])
    ELSE [f EXCEPT !.items = r.items, !.seen_ids = r.seen_ids,
                   !.status = "returned"]

\* One attempt of search_ebay_generic: the request raises, or its page is
\* processed.
EbayAttempt ==
    /\ fetch.status = "running"
    /\ fetch.adapter = "ebay"
    /\ \/ fetch' = AfterFailure(fetch)
       \/ \E page \in Pages :
            fetch' = EbayProcessed(fetch,
                        EbayLoop(page, 1, fetch.items, fetch.seen_ids))
    /\ UNCHANGED <<chain, call, quota, fan, match, arb, norm, web>>

\* facebook_marketplace_api.py 399-438: the loop over raw_items.  A
\* listing whose normalization raises is skipped by the inner except;
\* every other listing is appended.
RECURSIVE FacebookLoop(_, _, _)
FacebookLoop(page, k, items) ==
    IF k > Len(page) THEN items
    ELSE IF ~page[k].price_ok THEN FacebookLoop(page, k + 1, items)
    ELSE FacebookLoop(page, k + 1, Append(items, page[k].item_id))

\* What record_request does at line 445: it returns, or it raises (the
\* usage file is torn, see BeginRecord).
RecordOutcomes == {"recorded", "raises"}

FacebookProcessed(f, items, recorded) ==
    IF recorded = "raises"
    THEN AfterFailure([f EXCEPT !.items = items])
    ELSE [f EXCEPT !.items = items, !.status = "returned"]

\* One attempt of search_facebook_marketplace: the request raises, or its
\* page is normalized into items and the request is recorded.
FacebookAttempt ==
    /\ fetch.status = "running"
    /\ fetch.adapter = "facebook"
    /\ \/ fetch' = AfterFailure(fetch)
       \/ \E page \in Pages, recorded \in RecordOutcomes :
            fetch' = FacebookProcessed(fetch,
                        FacebookLoop(page, 1, fetch.items), recorded)
    /\ UNCHANGED <<chain, call, quota, fan, match, arb, norm, web>>

\* The caller has the list or the exception.
FetchDone ==
    /\ fetch.status \in {"returned", "raised"}
    /\ fetch' = Idle
    /\ UNCHANGED <<chain, call, quota, fan, match, arb, norm, web>>

InitFetch ==
    /\ chain = Idle
    /\ call = Idle
    /\ quota = Idle
    /\ fan = Idle
    /\ match = Idle
    /\ arb = Idle
    /\ norm = Idle
    /\ fetch = Idle
    /\ web = Idle

NextFetch == FetchStart \/ EbayAttempt \/ FacebookAttempt \/ FetchDone

SpecFetch == InitFetch /\ [][NextFetch]_vars

\* C28: the list an adapter call returns holds no upstream listing twice,
\* whatever attempts failed before the one that returned.
C28_NoListingTwice ==
    fetch.status = "returned"
    => \A i, j \in 1..Len(fetch.items) :
          fetch.items[i] = fetch.items[j] => i = j

(***************************************************************************)
(* WEB APPLICATION: the /api/search and /api/generate-report handlers of   *)
(* app.py with the module-level last_search_results.  The development      *)
(* server runs each request in its own thread, so handlers of different    *)
(* clients interleave.  A search result is known by the number of the      *)
(* search that produced it; 0 stands for None.                             *)
(***************************************************************************)

Clients == {"c1", "c2"}

\* Searches in one run of the model.
MaxSearches == 3

\* The query strings a client posts.
Queries == {"", "rolex"}

NoReport == [built |-> FALSE, ebay |-> 0, rest |-> 0]

\* A client: the request it has in flight (pc), the results dictionary
\* its search handler is filling, its own most recent search, the answer
\* to its last request and the report that answer carried.
ClientIdle ==
    [pc |-> "idle", results |-> 0, last |-> 0, answer |-> "",
     report |-> NoReport]

WebStart ==
    [status |-> "serving", last_search_results |-> 0, searches |-> 0,
     clients |-> [c \in Clients |-> ClientIdle]]

\* search(), lines 40-57: an empty query is answered with 400; otherwise
\* the handler builds its results dictionary.
SearchBegin(c) ==
    /\ web.status = "serving"
    /\ web.clients[c].pc = "idle"
    /\ web.searches < MaxSearches
    /\ \E query \in Queries :
         web' = IF query = ""
                THEN [web EXCEPT !.clients[c].answer = "400",
                                 !.clients[c].report = NoReport]
                ELSE [web EXCEPT !.searches = @ + 1,
                                 !.clients[c].pc = "searching",
                                 !.clients[c].results = web.searches + 1,
                                 !.clients[c].answer = "",
                                 !.clients[c].report = NoReport]
    /\ UNCHANGED <<chain, call, quota, fan, match, arb, norm, fetch>>

\* search(), lines 291-295: last_search_results = results;
\* return jsonify(results).
SearchFinish(c) ==
    /\ web.status = "serving"
    /\ web.clients[c].pc = "searching"
    /\ web' = [web EXCEPT !.last_search_results = web.clients[c].results,
                          !.clients[c].pc = "idle",
                          !.clients[c].last = web.clients[c].results,
                          !.clients[c].results = 0,
                          !.clients[c].answer = "results"]
    /\ UNCHANGED <<chain, call, quota, fan, match, arb, norm, fetch>>

\* generate_report(), lines 298-335: "if not last_search_results" is
\* answered with 400; otherwise the rows of last_search_results['ebay']
\* are collected.
ReportBegin(c) ==
    /\ web.status = "serving"
    /\ web.clients[c].pc = "idle"
    /\ web' = IF web.last_search_results = 0
              THEN [web EXCEPT !.clients[c].answer = "400",
                               !.clients[c].report = NoReport]
              ELSE [web EXCEPT !.clients[c].pc = "reporting",
                               !.clients[c].answer = "",
                               !.clients[c].report =
                                   [built |-> FALSE,
                                    ebay |-> web.last_search_results,
                                    rest |-> 0]]
    /\ UNCHANGED <<chain, call, quota, fan, match, arb, norm, fetch>>

\* generate_report(), lines 337-424: the rows of
\* last_search_results['facebook'] and ['amazon'] are read from the
\* global as it is now, the report is written and answered.
ReportFinish(c) ==
    /\ web.status = "serving"
    /\ web.clients[c].pc = "reporting"
    /\ web' = [web EXCEPT !.clients[c].pc = "idle",
                          !.clients[c].answer = "report",
                          !.clients[c].report =
                              [built |-> TRUE,
                               ebay |-> web.clients[c].report.ebay,
                               rest |-> web.last_search_results]]
    /\ UNCHANGED <<chain, call, quota, fan, match, arb, norm, fetch>>

InitWeb ==
    /\ chain = Idle
    /\ call = Idle
    /\ quota = Idle
    /\ fan = Idle
    /\ match = Idle
    /\ arb = Idle
    /\ norm = Idle
    /\ fetch = Idle
    /\ web = WebStart

NextWeb ==
    \E c \in Clients :
      SearchBegin(c) \/ SearchFinish(c) \/ ReportBegin(c) \/ ReportFinish(c)

SpecWeb == InitWeb /\ [][NextWeb]_vars

\* C30: the report a client has just been answered with, after a search
\* of its own, is built from the results of that client's most recent
\* search, in all of its rows.
C30_ReportFromOwnSearch ==
    web.status = "serving"
    => \A c \in Clients :
         (web.clients[c].report.built /\ web.clients[c].last # 0)
         => /\ web.clients[c].report.ebay = web.clients[c].last
            /\ web.clients[c].report.rest = web.clients[c].last

=============================================================================
